---------------------------- MODULE Spec2Model ----------------------------
(***************************************************************************)
(* Verification model of the WxAnalysis frontend (src/frontend/src/App.tsx) *)
(*                                                                         *)
(* The module holds several state machines over one set of variables; each *)
(* specification starts the machines it does not exercise in their idle    *)
(* state and leaves them unchanged.                                        *)
(*                                                                         *)
(*   Spec         timeline state, live/historical fetches, abort handling  *)
(*   SpecRedraw   animation-frame scheduling of the station-plot redraw    *)
(*   SpecContour  contoursForLevel (marching squares) on small grids       *)
(*   SpecCell     contoursForLevel on one cell (worked examples)           *)
(*   SpecThin     thinByPixelGrid (decluttering)                           *)
(*   SpecBarb     drawWindBarb                                             *)
(*   SpecBatch    the loops over a batch when map.project throws           *)
(*   SpecOverlay  one field of drawAnalysisOverlay, observations to canvas *)
(*   SpecDeclutter  the declutteredObs memo: bucket size, thinning         *)
(*   SpecScan     the neighbor search of one grid node, point by point     *)
(*   SpecWeights  the grid build at one node with points closer than 3 px   *)
(*   SpecLabel    labelContours: candidates, the sort, the labels           *)
(*   SpecWind     drawWind: the symbols at the nodes of the wind grid       *)
(*   SpecStore    the grid build at one node with the store as 32-bit float *)
(*   SpecPlay     a session of the history panel, with a fair playback timer *)
(*   SpecLevels   drawOne from the grid on: min/max, levels, contours,     *)
(*                the freezing line                                        *)
(*   SpecField    drawOne's grid build: inverse-distance weighting         *)
(***************************************************************************)
EXTENDS Integers, Sequences, FiniteSets, TLC

(***************************************************************************)
(* Bounds of the model                                                     *)
(***************************************************************************)
\* number of distinct historical snapshot times the backend can list
NumTimes == 2
\* historical network requests issued over one run
MaxReq == 2
\* live / time-list requests in flight at once
MaxPending == 1
\* animation frames requested over one run
MaxFrames == 6
\* cells in the strip of grid cells handed to contoursForLevel
GridCells == 2
\* observations in the list handed to thinByPixelGrid
MaxStations == 3
\* cells in the strip of grid cells drawOne builds its levels for
LevelCells == 1
\* points of one field (pts in drawOne)
MaxPts == 4
\* the largest wind speed handed to drawWindBarb, in knots
MaxSpeedKt == 110
\* observations in a batch with failing projections
MaxBatch == 3
\* decluttered observations handed to one field of the analysis overlay
MaxOverlayObs == 4
\* the largest zoom level of the map view
MaxZoom == 11
\* points scanned for one grid node in the neighbor search
MaxScan == 12
\* segments of one level handed to labelContours
MaxSegs == 7
\* columns of the wind grid
WindCols == 2

VARIABLES
  \* ---- timeline and fetch state (App component) ----
  timelineMode,    \* "live" | "history"
  availableTimes,  \* sequence of snapshot times
  timeIndex,       \* -1 when no time is chosen
  isPlaying,
  obs,             \* the observation set on display
  lastUpdate,
  isLoading,
  obsCache,        \* obsCacheRef: the times whose stations are cached
  inflightRef,     \* inflightRef: id of the last AbortController, 0 = null
  inflight,        \* historical requests not yet settled
  nextReq,         \* id of the next historical request
  livePending,     \* /api/obs/latest requests not yet settled
  timesPending,    \* /api/obs/times requests not yet settled
  errorLogged,     \* the handler that ran last called console.error
  lastRequested,   \* the time last passed to fetchObsAtTime, 0 = none
  lastEvent        \* how the last historical request settled, if the handler
                   \* that ran last settled one: "histApplied", "histDropped",
                   \* "histFailed"; "other" otherwise

timelineVars == <<timelineMode, availableTimes, timeIndex, isPlaying>>
displayVars == <<obs, lastUpdate, isLoading>>
histVars == <<obsCache, inflightRef, inflight, nextReq, lastRequested>>
fetchVars == <<timelineMode, availableTimes, timeIndex, isPlaying, obs,
               lastUpdate, isLoading, obsCache, inflightRef, inflight, nextReq,
               livePending, timesPending, errorLogged, lastRequested, lastEvent>>

VARIABLES
  \* ---- animation-frame scheduling of the station-plot canvas ----
  mapLoaded,
  showStations,
  displayMode,        \* "plots" | "dots"
  listening,          \* redraw is registered for the map's move/zoom/resize
  animationFrameRef,  \* animationFrameRef.current, 0 = null
  raf1Ref,            \* raf1 of the last run of the mount-draw effect, 0 = none
  rafRef,             \* raf of the last run of the data-redraw effect, 0 = none
  frames,             \* the browser's pending animation-frame callbacks
  nextFrame,          \* the handle the next requestAnimationFrame returns
  lastRun,            \* the frame callback that ran in the last step
  coalesced           \* some redraw() cancelled a frame that was still pending

redrawVars == <<mapLoaded, showStations, displayMode, listening, animationFrameRef,
                raf1Ref, rafRef, frames, nextFrame, lastRun, coalesced>>

VARIABLES
  \* ---- one call of contoursForLevel ----
  cGrid,    \* gridVals, row-major: cGrid[j * nx + i]
  cNx,
  cNy,
  cStep,
  cLevel,
  cLines,   \* the segments returned, each with the cell that produced it
  cPc       \* "call" | "done"

contourVars == <<cGrid, cNx, cNy, cStep, cLevel, cLines, cPc>>

VARIABLES
  \* ---- one call of thinByPixelGrid ----
  tStations,   \* the stations argument
  tInput,      \* the list the caller passed
  tCell,       \* cellSizePx
  tOut,        \* the list returned
  tPc          \* "call" | "done"

thinVars == <<tStations, tInput, tCell, tOut, tPc>>

VARIABLES
  \* ---- drawOne(mode), from the built grid on ----
  dMode,     \* "temp" | "dewpoint" | "slp"
  dUnit,     \* tempUnit: "F" | "C"
  dGrid,     \* gridVals
  dNx,
  dNy,
  dMinV,
  dMaxV,
  dLevels,   \* levels
  dK,        \* position of the draw loop in levels
  dCalls,    \* the levels contoursForLevel was called with, in call order
  dDrawn,    \* the strokes made: [level, pass, n]
  dPc        \* "grid" | "draw" | "done" | "skipped"

levelVars == <<dMode, dUnit, dGrid, dNx, dNy, dMinV, dMaxV, dLevels, dK,
               dCalls, dDrawn, dPc>>

VARIABLES
  \* ---- drawOne(mode), the grid build ----
  fPts,      \* pts: [x, y, val]
  fWidth,    \* canvas width and height in pixels
  fHeight,
  fNx,
  fNy,
  fGrid,     \* gridVals
  fK,        \* the node the loops are at, j * nx + i
  fPc        \* "start" | "build" | "done" | "skipped"

fieldVars == <<fPts, fWidth, fHeight, fNx, fNy, fGrid, fK, fPc>>

VARIABLES
  \* ---- one call of drawWindBarb ----
  bDir,    \* dirDeg: a number of degrees, or Null
  bSpd,    \* spdKt: a number, or Null
  bOut,    \* what was drawn: [kind, n50, n10, n5]
  bPc      \* "call" | "done"

barbVars == <<bDir, bSpd, bOut, bPc>>

VARIABLES
  \* ---- one batch of observations through the loops that project ----
  jObs,     \* the batch: [id, ok, x, y, val]; ok = map.project answers
  jOp,      \* the loop that ran: [name, cell]
  jOut,     \* what the loop produced
  jThrew,   \* the loop was left by an exception
  jPc       \* "call" | "done"

batchVars == <<jObs, jOp, jOut, jThrew, jPc>>

VARIABLES
  \* ---- one field of drawAnalysisOverlay: drawOne(mode) or drawWind() ----
  oObs,     \* declutteredObs: [x, y, val]; val is the field's attribute or Null
  oMode,    \* "temp" | "dewpoint" | "slp" | "wind"
  oUnit,    \* tempUnit
  oPts,     \* pts
  oGrid,    \* gridVals (gridU for wind); <<>> while no grid is built
  oNx,
  oNy,
  oCalls,   \* the levels contoursForLevel was called with
  oDrawn,   \* the number of strokes or wind symbols drawn
  oPc       \* "start" | "grid" | "draw" | "done" | "skipped"

overlayVars == <<oObs, oMode, oUnit, oPts, oGrid, oNx, oNy, oCalls, oDrawn, oPc>>

VARIABLES
  \* ---- one evaluation of the declutteredObs memo ----
  zObs,       \* obs
  zZoom,      \* viewState.zoom
  zDensity,   \* densityMode
  zMapReady,  \* getMapOrNull(mapRef) answers a map
  zCell,      \* cell handed to thinByPixelGrid; 0 when it was not called
  zOut,       \* declutteredObs
  zPc         \* "call" | "done"

declutterVars == <<zObs, zZoom, zDensity, zMapReady, zCell, zOut, zPc>>

VARIABLES
  \* ---- the neighbor search of one grid node, point by point ----
  nGx,         \* the node
  nGy,
  nNeighbors,  \* neighbors
  nSeen,       \* how many points at each sampled position were scanned
  nCount       \* the number of points scanned for the node

scanVars == <<nGx, nGy, nNeighbors, nSeen, nCount>>

VARIABLES
  \* ---- labelContours on one level's segment list ----
  lSegs,    \* segments
  lCands,   \* candidates, sorted once built
  lLabels,  \* the labels drawn, in drawing order
  lK,       \* i of the label loop
  lPc       \* "call", "label", "done"

labelVars == <<lSegs, lCands, lLabels, lK, lPc>>

VARIABLES
  \* ---- drawWind: the symbols at the grid nodes ----
  wGridU,   \* gridU
  wGridV,   \* gridV
  wNx,
  wNy,
  wMode,    \* windRenderMode
  wK,       \* the node at hand, j * nx + i
  wGlyphs,  \* what was drawn at each node
  wPc       \* "draw", "done"

windVars == <<wGridU, wGridV, wNx, wNy, wMode, wK, wGlyphs, wPc>>

vars ==
  <<fetchVars, redrawVars, contourVars, thinVars,
    levelVars, fieldVars, barbVars, batchVars,
    overlayVars, declutterVars, scanVars, labelVars, windVars>>

\* the variables an action of one machine leaves alone
notFetch ==
  <<redrawVars, contourVars, thinVars, levelVars,
    fieldVars, barbVars, batchVars, overlayVars,
    declutterVars, scanVars, labelVars, windVars>>
notRedraw ==
  <<fetchVars, contourVars, thinVars, levelVars,
    fieldVars, barbVars, batchVars, overlayVars,
    declutterVars, scanVars, labelVars, windVars>>
notContour ==
  <<fetchVars, redrawVars, thinVars, levelVars,
    fieldVars, barbVars, batchVars, overlayVars,
    declutterVars, scanVars, labelVars, windVars>>
notThin ==
  <<fetchVars, redrawVars, contourVars, levelVars,
    fieldVars, barbVars, batchVars, overlayVars,
    declutterVars, scanVars, labelVars, windVars>>
notLevel ==
  <<fetchVars, redrawVars, contourVars, thinVars,
    fieldVars, barbVars, batchVars, overlayVars,
    declutterVars, scanVars, labelVars, windVars>>
notField ==
  <<fetchVars, redrawVars, contourVars, thinVars,
    levelVars, barbVars, batchVars, overlayVars,
    declutterVars, scanVars, labelVars, windVars>>
notBarb ==
  <<fetchVars, redrawVars, contourVars, thinVars,
    levelVars, fieldVars, batchVars, overlayVars,
    declutterVars, scanVars, labelVars, windVars>>
notBatch ==
  <<fetchVars, redrawVars, contourVars, thinVars,
    levelVars, fieldVars, barbVars, overlayVars,
    declutterVars, scanVars, labelVars, windVars>>
notOverlay ==
  <<fetchVars, redrawVars, contourVars, thinVars,
    levelVars, fieldVars, barbVars, batchVars,
    declutterVars, scanVars, labelVars, windVars>>
notDeclutter ==
  <<fetchVars, redrawVars, contourVars, thinVars,
    levelVars, fieldVars, barbVars, batchVars,
    overlayVars, scanVars, labelVars, windVars>>
notScan ==
  <<fetchVars, redrawVars, contourVars, thinVars,
    levelVars, fieldVars, barbVars, batchVars,
    overlayVars, declutterVars, labelVars, windVars>>
notLabel ==
  <<fetchVars, redrawVars, contourVars, thinVars,
    levelVars, fieldVars, barbVars, batchVars,
    overlayVars, declutterVars, scanVars, windVars>>
notWind ==
  <<fetchVars, redrawVars, contourVars, thinVars,
    levelVars, fieldVars, barbVars, batchVars,
    overlayVars, declutterVars, scanVars, labelVars>>


(***************************************************************************)
(* Timeline and fetch state machine                                        *)
(***************************************************************************)
Times == 1..NumTimes

RangeSeq(lo, hi) == [k \in 1..(hi - lo + 1) |-> lo + k - 1]

\* the lists /api/obs/times can answer with: a window of the snapshot times
TimeLists == {<<>>} \cup {RangeSeq(lo, hi) : lo \in Times, hi \in Times}

NoObs == [kind |-> "none", t |-> 0]
LiveObs == [kind |-> "live", t |-> 0]
HistObs(iso) == [kind |-> "hist", t |-> iso]

\* AbortController.abort() on the controller inflightRef holds
AbortRef(reqs, ref) ==
  {IF r.id = ref THEN [r EXCEPT !.aborted = TRUE] ELSE r : r \in reqs}

\* fetchObsAtTime(iso), up to its first await
FetchObsAtTime(iso) ==
  /\ lastRequested' = iso
  /\ IF iso \in obsCache
     THEN /\ obs' = HistObs(iso)
          /\ lastUpdate' = HistObs(iso)
          /\ isLoading' = FALSE
          /\ UNCHANGED <<obsCache, inflightRef, inflight, nextReq>>
     ELSE /\ nextReq <= MaxReq
          /\ inflight' = AbortRef(inflight, inflightRef) \cup
                {[id |-> nextReq, iso |-> iso, aborted |-> FALSE, phase |-> "fetch"]}
          /\ inflightRef' = nextReq
          /\ nextReq' = nextReq + 1
          /\ UNCHANGED <<obs, lastUpdate, isLoading, obsCache>>

\* a history fetch effect that does not look at the timeline mode
HistoryFetchEffectInAnyMode(changed, mode, idx, times) ==
  IF changed /\ idx >= 0 /\ idx < Len(times)
  THEN FetchObsAtTime(times[idx + 1])
  ELSE UNCHANGED <<displayVars, histVars>>

\* the effect on [timelineMode, timeIndex, availableTimes]; changed: a
\* dependency differs from the last render
HistoryFetchEffect(changed, mode, idx, times) ==
  IF changed /\ mode = "history" /\ idx >= 0 /\ idx < Len(times)
  THEN FetchObsAtTime(times[idx + 1])
  ELSE UNCHANGED <<displayVars, histVars>>

\* fetchObservations(), up to its await
FetchObservations == livePending' = livePending + 1

\* fetchAvailableTimes(), up to its await
FetchAvailableTimes == timesPending' = timesPending + 1

\* the catch clause of fetchObsAtTime
HistCatchLogsAbort(name) ==
  /\ errorLogged' = TRUE
  /\ isLoading' = FALSE
  /\ UNCHANGED <<obs, lastUpdate, obsCache>>

HistCatch(name) ==
  IF name = "AbortError"
  THEN /\ errorLogged' = FALSE
       /\ UNCHANGED <<obs, lastUpdate, isLoading, obsCache>>
  ELSE /\ errorLogged' = TRUE
       /\ isLoading' = FALSE
       /\ UNCHANGED <<obs, lastUpdate, obsCache>>

InitFetch ==
  /\ timelineMode = "live"
  /\ availableTimes = <<>>
  /\ timeIndex = -1
  /\ isPlaying = FALSE
  /\ obs = NoObs
  /\ lastUpdate = NoObs
  /\ isLoading = TRUE
  /\ obsCache = {}
  /\ inflightRef = 0
  /\ inflight = {}
  /\ nextReq = 1
  /\ livePending = 1
  /\ timesPending = 0
  /\ errorLogged = FALSE
  /\ lastRequested = 0
  /\ lastEvent = "other"

\* radio "History"
SetHistory ==
  /\ UNCHANGED notFetch
  /\ timelineMode = "live"
  /\ timesPending < MaxPending
  /\ timelineMode' = "history"
  /\ FetchAvailableTimes
  /\ HistoryFetchEffect(TRUE, "history", timeIndex, availableTimes)
  /\ lastEvent' = "other"
  /\ errorLogged' = FALSE
  /\ UNCHANGED <<availableTimes, timeIndex, isPlaying, livePending>>

\* radio "Live"
SetLive ==
  /\ UNCHANGED notFetch
  /\ timelineMode = "history"
  /\ livePending < MaxPending
  /\ timelineMode' = "live"
  /\ isPlaying' = FALSE
  /\ FetchObservations
  /\ lastEvent' = "other"
  /\ errorLogged' = FALSE
  /\ UNCHANGED <<availableTimes, timeIndex, displayVars, histVars, timesPending>>

\* setInterval(fetchObservations, 300000)
LiveTick ==
  /\ UNCHANGED notFetch
  /\ timelineMode = "live"
  /\ livePending < MaxPending
  /\ FetchObservations
  /\ lastEvent' = "other"
  /\ errorLogged' = FALSE
  /\ UNCHANGED <<timelineVars, displayVars, histVars, timesPending>>

\* setInterval(() => fetchAvailableTimes(360), 300000)
TimesTick ==
  /\ UNCHANGED notFetch
  /\ timelineMode = "history"
  /\ timesPending < MaxPending
  /\ FetchAvailableTimes
  /\ lastEvent' = "other"
  /\ errorLogged' = FALSE
  /\ UNCHANGED <<timelineVars, displayVars, histVars, livePending>>

\* /api/obs/latest answers
LiveOk ==
  /\ UNCHANGED notFetch
  /\ livePending > 0
  /\ livePending' = livePending - 1
  /\ obs' = LiveObs
  /\ lastUpdate' = LiveObs
  /\ isLoading' = FALSE
  /\ lastEvent' = "other"
  /\ errorLogged' = FALSE
  /\ UNCHANGED <<timelineVars, histVars, timesPending>>

\* /api/obs/latest fails
LiveFail ==
  /\ UNCHANGED notFetch
  /\ livePending > 0
  /\ livePending' = livePending - 1
  /\ errorLogged' = TRUE
  /\ isLoading' = FALSE
  /\ lastEvent' = "other"
  /\ UNCHANGED <<timelineVars, obs, lastUpdate, histVars, timesPending>>

\* /api/obs/times answers with the list times
TimesOk(times) ==
  /\ UNCHANGED notFetch
  /\ timesPending > 0
  /\ timesPending' = timesPending - 1
  /\ availableTimes' = times
  /\ timeIndex' = IF Len(times) > 0 THEN Len(times) - 1 ELSE timeIndex
  /\ HistoryFetchEffect(TRUE, timelineMode, timeIndex', times)
  /\ lastEvent' = "other"
  /\ errorLogged' = FALSE
  /\ UNCHANGED <<timelineMode, isPlaying, livePending>>

\* /api/obs/times fails
TimesFail ==
  /\ UNCHANGED notFetch
  /\ timesPending > 0
  /\ timesPending' = timesPending - 1
  /\ errorLogged' = TRUE
  /\ availableTimes' = <<>>
  /\ timeIndex' = -1
  /\ HistoryFetchEffect(TRUE, timelineMode, -1, <<>>)
  /\ lastEvent' = "other"
  /\ UNCHANGED <<timelineMode, isPlaying, livePending>>

Max(a, b) == IF a >= b THEN a ELSE b
Min(a, b) == IF a <= b THEN a ELSE b

\* setTimeIndex(idx) from a control of the history panel, and the effects
\* of the render that follows
SetTimeIndex(idx) ==
  /\ UNCHANGED notFetch
  /\ timeIndex' = idx
  /\ HistoryFetchEffect(idx # timeIndex, timelineMode, idx, availableTimes)
  /\ lastEvent' = "other"
  /\ errorLogged' = FALSE
  /\ UNCHANGED <<timelineMode, availableTimes, livePending, timesPending>>

\* button "previous"
PrevClick ==
  /\ timelineMode = "history"
  /\ ~(Len(availableTimes) = 0 \/ timeIndex <= 0)
  /\ SetTimeIndex(Max(0, timeIndex - 1))
  /\ UNCHANGED isPlaying

\* button "next"
NextClick ==
  /\ timelineMode = "history"
  /\ ~(Len(availableTimes) = 0 \/ timeIndex >= Len(availableTimes) - 1)
  /\ SetTimeIndex(Min(Len(availableTimes) - 1, timeIndex + 1))
  /\ UNCHANGED isPlaying

\* the range input, moved to value v
SliderChange(v) ==
  /\ timelineMode = "history"
  /\ Len(availableTimes) # 0
  /\ v \in 0..Max(0, Len(availableTimes) - 1)
  /\ v # Max(0, timeIndex)
  /\ isPlaying' = FALSE
  /\ SetTimeIndex(v)

\* button "Play" / "Pause"
PlayToggle ==
  /\ UNCHANGED notFetch
  /\ timelineMode = "history"
  /\ Len(availableTimes) >= 2
  /\ isPlaying' = ~isPlaying
  /\ lastEvent' = "other"
  /\ errorLogged' = FALSE
  /\ UNCHANGED <<timelineMode, availableTimes, timeIndex, displayVars, histVars,
                 livePending, timesPending>>

\* a playback that never loops back to the start
AdvanceWithoutLoop(prev, last) == prev + 1

\* the updater passed to setTimeIndex by the playback timeout
AdvanceOrLoop(prev, last) == IF prev >= last THEN 0 ELSE prev + 1

\* the playback timeout fires
PlayTick ==
  /\ timelineMode = "history"
  /\ isPlaying
  /\ Len(availableTimes) >= 2
  /\ timeIndex >= 0
  /\ SetTimeIndex(AdvanceOrLoop(timeIndex, Len(availableTimes) - 1))
  /\ UNCHANGED isPlaying

\* fetch() of a historical request resolves with the response headers
HistResponse(r) ==
  /\ UNCHANGED notFetch
  /\ r \in inflight
  /\ ~r.aborted
  /\ r.phase = "fetch"
  /\ inflight' = (inflight \ {r}) \cup {[r EXCEPT !.phase = "json"]}
  /\ lastEvent' = "other"
  /\ errorLogged' = FALSE
  /\ UNCHANGED <<timelineVars, displayVars, obsCache, inflightRef, nextReq,
                 lastRequested, livePending, timesPending>>

\* res.json() of a historical request resolves: the try block runs to its end
HistApply(r) ==
  /\ UNCHANGED notFetch
  /\ r \in inflight
  /\ ~r.aborted
  /\ r.phase = "json"
  /\ inflight' = inflight \ {r}
  /\ obsCache' = obsCache \cup {r.iso}
  /\ obs' = HistObs(r.iso)
  /\ lastUpdate' = HistObs(r.iso)
  /\ isLoading' = FALSE
  /\ lastEvent' = "histApplied"
  /\ errorLogged' = FALSE
  /\ UNCHANGED <<timelineVars, inflightRef, nextReq, lastRequested, livePending,
                 timesPending>>

\* an await of a historical request rejects: AbortError once its controller
\* was aborted, a network or parse error otherwise
HistReject(r) ==
  /\ UNCHANGED notFetch
  /\ r \in inflight
  /\ inflight' = inflight \ {r}
  /\ HistCatch(IF r.aborted THEN "AbortError"
               ELSE IF r.phase = "fetch" THEN "TypeError" ELSE "SyntaxError")
  /\ lastEvent' = IF r.aborted THEN "histDropped" ELSE "histFailed"
  /\ UNCHANGED <<timelineVars, inflightRef, nextReq, lastRequested, livePending,
                 timesPending>>

Next ==
  \/ SetHistory
  \/ SetLive
  \/ LiveTick
  \/ TimesTick
  \/ LiveOk
  \/ LiveFail
  \/ \E times \in TimeLists : TimesOk(times)
  \/ TimesFail
  \/ PrevClick
  \/ NextClick
  \/ \E v \in 0..(NumTimes - 1) : SliderChange(v)
  \/ PlayToggle
  \/ PlayTick
  \/ \E r \in inflight : HistResponse(r)
  \/ \E r \in inflight : HistApply(r)
  \/ \E r \in inflight : HistReject(r)


(***************************************************************************)
(* Claims about the historical fetch                                       *)
(***************************************************************************)
\* C1: once fetchObsAtTime was called for a newer time (answered from the
\* cache or from the network), every earlier historical request still in
\* flight is aborted, and a response that is applied to obs/lastUpdate is one
\* for the time requested last.
C1_SupersededAborted ==
  /\ \A r \in inflight : r.iso # lastRequested => r.aborted
  /\ lastEvent = "histApplied" => obs = HistObs(lastRequested)

TimesAnswered == timesPending' < timesPending /\ ~errorLogged'

\* C24: an answer to a request for the time list sets timeIndex to the
\* latest time only when no time is chosen yet; a non-empty list that still
\* holds the chosen index leaves timeIndex where the user or playback put it.
C24_RefreshKeepsChosenIndex ==
  [][(/\ TimesAnswered
      /\ Len(availableTimes') > 0
      /\ timeIndex >= 0
      /\ timeIndex < Len(availableTimes')) => timeIndex' = timeIndex]_vars

\* with no time chosen, a non-empty list selects its latest time
RefreshDefaultsToLatest ==
  [][(TimesAnswered /\ Len(availableTimes') > 0 /\ timeIndex < 0) =>
       timeIndex' = Len(availableTimes') - 1]_vars

(***************************************************************************)
(* Claims about the history fetch effect                                   *)
(***************************************************************************)
\* the step called fetchObsAtTime: it recorded a new time, issued a request,
\* or put a cached frame on display
FetchObsAtTimeCalled ==
  \/ lastRequested' # lastRequested
  \/ nextReq' # nextReq
  \/ obs' # obs /\ obs'.kind = "hist" /\ inflight' = inflight

\* C28: fetchObsAtTime is invoked only while timelineMode is history and only
\* with the time availableTimes[timeIndex] for an index
\* 0 <= timeIndex < availableTimes.length, whatever mode switches, list
\* refreshes (an empty list included), prev/next clicks, slider moves and
\* playback ticks came before.
C28_FetchOnlyInHistoryInRange ==
  [][FetchObsAtTimeCalled =>
       /\ timelineMode' = "history"
       /\ 0 <= timeIndex' /\ timeIndex' < Len(availableTimes')
       /\ lastRequested' = availableTimes'[timeIndex' + 1]]_vars

\* a frame other than the latest was requested from the history panel
C28_Witness ==
  /\ timelineMode = "history"
  /\ Len(availableTimes) = NumTimes
  /\ timeIndex = 0
  /\ lastRequested = availableTimes[1]

\* live mode, or an empty list with a stale index, after a frame was
\* requested: the effect has nothing to fetch
NothingToFetch ==
  /\ lastRequested # 0
  /\ \/ timelineMode = "live" /\ timesPending > 0
     \/ availableTimes = <<>> /\ timeIndex >= 0

(***************************************************************************)
(* Claims about responses and the timeline mode                            *)
(*                                                                         *)
(* /api/obs/latest is requested in live mode only (mount, radio "Live",    *)
(* the live interval) and /api/obs/at in history mode only (C28), so a     *)
(* response applied in the other mode was requested before a mode change.  *)
(***************************************************************************)
\* the step applied a /api/obs/latest response to obs
LiveApplied == livePending' < livePending /\ ~errorLogged'

\* the step applied a /api/obs/at response to obs
HistApplied == lastEvent' = "histApplied"

\* C30: a response to a request issued in one timeline mode is never applied
\* to obs after the timeline mode has changed: a late /api/obs/latest
\* response is not applied in history mode and a historical response still
\* in flight at the switch to live is not applied in live mode.
C30_NoCrossModeResponse ==
  [][/\ LiveApplied => timelineMode = "live"
     /\ HistApplied => timelineMode = "history"]_vars

\* the part about /api/obs/latest alone
LateLiveResponseDropped == [][LiveApplied => timelineMode = "live"]_vars

\* the part about /api/obs/at alone
LateHistResponseDropped == [][HistApplied => timelineMode = "history"]_vars

\* history mode shows the live observations although the frame of the
\* selected time was fetched and nothing is in flight
LiveObsOverHistoricalFrame ==
  /\ timelineMode = "history"
  /\ timeIndex >= 0 /\ timeIndex < Len(availableTimes)
  /\ availableTimes[timeIndex + 1] \in obsCache
  /\ inflight = {} /\ livePending = 0 /\ timesPending = 0
  /\ obs = LiveObs

\* live mode shows a historical frame and nothing is in flight
HistoricalFrameOverLiveObs ==
  /\ timelineMode = "live"
  /\ inflight = {} /\ livePending = 0 /\ timesPending = 0
  /\ obs.kind = "hist"

(***************************************************************************)
(* Claims about playback                                                   *)
(***************************************************************************)
LastIndex == Len(availableTimes) - 1

\* the conditions under which the playback effect arms its timeout
PlaybackArmed ==
  /\ timelineMode = "history"
  /\ isPlaying
  /\ Len(availableTimes) >= 2
  /\ timeIndex >= 0

\* a playback tick moves the index one step forward, or from the last index
\* back to 0, and the index stays within the list
TickAdvancesOrLoops ==
  [][PlayTick =>
       /\ timeIndex <= LastIndex
       /\ timeIndex' = (IF timeIndex = LastIndex THEN 0 ELSE timeIndex + 1)
       /\ 0 <= timeIndex' /\ timeIndex' <= LastIndex
       /\ availableTimes' = availableTimes]_vars

\* from some point on only playback ticks change the state, and the ticks
\* stay possible (the request budget MaxReq of the model is not exhausted)
OnlyPlaybackFromSomePoint == <>[][PlayTick]_vars /\ <>[](ENABLED PlayTick)

\* C27: in history mode, while playing with at least 2 available times and a
\* valid index, each playback tick moves timeIndex from i to i+1, or from the
\* last index to 0, keeping 0 <= timeIndex <= len-1; if nothing else changes
\* the state, every index 0..len-1 is selected infinitely often.
C27_PlaybackCycles ==
  /\ TickAdvancesOrLoops
  /\ \A i \in 0..(NumTimes - 1) :
       OnlyPlaybackFromSomePoint => []<>(i <= LastIndex => timeIndex = i)

\* playback is armed on the first frame of a list whose frames are all
\* cached, so that ticks alone go round the list for ever
C27_Witness ==
  /\ PlaybackArmed
  /\ timeIndex = 0
  /\ lastRequested = availableTimes[1]
  /\ \A k \in 1..Len(availableTimes) : availableTimes[k] \in obsCache
  /\ inflight = {}

(***************************************************************************)
(* Animation-frame scheduling of drawStationPlots                          *)
(*                                                                         *)
(* The scheduling state is threaded through the effect cleanups and bodies *)
(* of one render as a record                                               *)
(*   [ref, raf1, raf, frames, next, listening].                            *)
(***************************************************************************)
\* a pending callback: id is the handle requestAnimationFrame returned,
\* outer the handle of the frame whose callback requested it (0: none)
NoRun == [id |-> 0, kind |-> "none", draws |-> FALSE, outer |-> 0]

SchedState ==
  [ref |-> animationFrameRef, raf1 |-> raf1Ref, raf |-> rafRef, frames |-> frames,
   next |-> nextFrame, listening |-> listening]

\* cancelAnimationFrame(id)
CancelFrame(fs, id) == {f \in fs : f.id # id}

\* requestAnimationFrame(callback of the given kind)
RequestFrame(fs, id, kind, draws) ==
  fs \cup {[id |-> id, kind |-> kind, draws |-> draws, outer |-> 0]}

\* the callback of raf1 runs: it requests raf2, whose callback calls
\* drawStationPlots, and returns a function that nobody calls
MountDrawOuterFrame(st, raf1) ==
  [st EXCEPT !.frames = st.frames \cup
                          {[id |-> st.next, kind |-> "raf2", draws |-> TRUE,
                            outer |-> raf1]},
             !.next = st.next + 1]

\* redraw(): schedules a frame without cancelling the pending one
RedrawNoCancel(st) ==
  [st EXCEPT !.frames = RequestFrame(st.frames, st.next, "redraw", TRUE),
             !.ref = st.next,
             !.next = st.next + 1]

\* redraw(): cancel the pending frame, request the next one
Redraw(st) ==
  LET fs == IF st.ref # 0 THEN CancelFrame(st.frames, st.ref) ELSE st.frames
  IN  [st EXCEPT !.frames = RequestFrame(fs, st.next, "redraw", TRUE),
                 !.ref = st.next,
                 !.next = st.next + 1]

\* cleanup of the map-event effect
RedrawEffectCleanup(st) ==
  IF st.listening
  THEN [st EXCEPT !.listening = FALSE,
                  !.frames = IF st.ref # 0 THEN CancelFrame(st.frames, st.ref)
                             ELSE st.frames]
  ELSE st

\* body of the map-event effect
RedrawEffect(st, loaded) ==
  IF loaded THEN Redraw([st EXCEPT !.listening = TRUE]) ELSE st

\* cleanup of the mount-draw effect: cancelAnimationFrame(raf1)
MountDrawCleanup(st) ==
  IF st.raf1 # 0
  THEN [st EXCEPT !.frames = CancelFrame(st.frames, st.raf1), !.raf1 = 0]
  ELSE st

\* body of the mount-draw effect
MountDrawEffect(st, loaded, show, mode) ==
  IF loaded /\ show /\ mode = "plots"
  THEN [st EXCEPT !.frames = RequestFrame(st.frames, st.next, "raf1", FALSE),
                  !.raf1 = st.next,
                  !.next = st.next + 1]
  ELSE st

\* cleanup of the data-redraw effect: cancelAnimationFrame(raf)
DataRedrawCleanup(st) ==
  IF st.raf # 0
  THEN [st EXCEPT !.frames = CancelFrame(st.frames, st.raf), !.raf = 0]
  ELSE st

\* body of the data-redraw effect
DataRedrawEffect(st, loaded, show, mode) ==
  IF loaded
  THEN [st EXCEPT !.frames = RequestFrame(st.frames, st.next, "raf",
                                          show /\ mode = "plots"),
                  !.raf = st.next,
                  !.next = st.next + 1]
  ELSE st

\* a render in which drawStationPlots (and so every effect that depends on
\* it) changed: all cleanups, then all bodies, in declaration order
RunEffects(st, loaded, show, mode) ==
  LET c1 == RedrawEffectCleanup(st)
      c2 == MountDrawCleanup(c1)
      c3 == DataRedrawCleanup(c2)
      b1 == RedrawEffect(c3, loaded)
      b2 == MountDrawEffect(b1, loaded, show, mode)
  IN  DataRedrawEffect(b2, loaded, show, mode)

\* a render in which only the data-redraw effect's dependencies changed
RunDataEffect(st, loaded, show, mode) ==
  DataRedrawEffect(DataRedrawCleanup(st), loaded, show, mode)

Commit(st) ==
  /\ st.next <= MaxFrames + 1
  /\ animationFrameRef' = st.ref
  /\ raf1Ref' = st.raf1
  /\ rafRef' = st.raf
  /\ frames' = st.frames
  /\ nextFrame' = st.next
  /\ listening' = st.listening

InitRedraw ==
  /\ mapLoaded = FALSE
  /\ showStations \in BOOLEAN
  /\ displayMode \in {"plots", "dots"}
  /\ listening = FALSE
  /\ animationFrameRef = 0
  /\ raf1Ref = 0
  /\ rafRef = 0
  /\ frames = {}
  /\ nextFrame = 1
  /\ lastRun = NoRun
  /\ coalesced = FALSE

\* onLoad of the map
MapLoad ==
  /\ UNCHANGED notRedraw
  /\ UNCHANGED coalesced
  /\ ~mapLoaded
  /\ mapLoaded' = TRUE
  /\ Commit(RunEffects(SchedState, TRUE, showStations, displayMode))
  /\ lastRun' = NoRun
  /\ UNCHANGED <<showStations, displayMode>>

\* the map emits move, zoom or resize
MapEvent ==
  /\ UNCHANGED notRedraw
  /\ listening
  /\ Commit(Redraw(SchedState))
  /\ coalesced' = (coalesced \/ \E f \in frames : f.id = animationFrameRef)
  /\ lastRun' = NoRun
  /\ UNCHANGED <<mapLoaded, showStations, displayMode>>

\* declutteredObs, tempUnit or viewState changed: drawStationPlots is a new
\* function
Rerender ==
  /\ UNCHANGED notRedraw
  /\ UNCHANGED coalesced
  /\ mapLoaded
  /\ Commit(RunEffects(SchedState, mapLoaded, showStations, displayMode))
  /\ lastRun' = NoRun
  /\ UNCHANGED <<mapLoaded, showStations, displayMode>>

\* the "stations" checkbox
ToggleStations ==
  /\ UNCHANGED notRedraw
  /\ UNCHANGED coalesced
  /\ showStations' = ~showStations
  /\ Commit(RunEffects(SchedState, mapLoaded, showStations', displayMode))
  /\ lastRun' = NoRun
  /\ UNCHANGED <<mapLoaded, displayMode>>

\* toggleDisplayMode / setSurfaceObsMode
ToggleDisplayMode ==
  /\ UNCHANGED notRedraw
  /\ UNCHANGED coalesced
  /\ displayMode' = IF displayMode = "dots" THEN "plots" ELSE "dots"
  /\ Commit(RunEffects(SchedState, mapLoaded, showStations, displayMode'))
  /\ lastRun' = NoRun
  /\ UNCHANGED <<mapLoaded, showStations>>

\* obs, an overlay toggle or drawAnalysisOverlay changed
DataChange ==
  /\ UNCHANGED notRedraw
  /\ UNCHANGED coalesced
  /\ mapLoaded
  /\ Commit(RunDataEffect(SchedState, mapLoaded, showStations, displayMode))
  /\ lastRun' = NoRun
  /\ UNCHANGED <<mapLoaded, showStations, displayMode>>

\* the browser runs the pending callback f
FrameFires(f) ==
  /\ UNCHANGED notRedraw
  /\ UNCHANGED coalesced
  /\ f \in frames
  /\ LET st == [SchedState EXCEPT !.frames = frames \ {f}]
     IN  Commit(IF f.kind = "raf1" THEN MountDrawOuterFrame(st, f.id) ELSE st)
  /\ lastRun' = f
  /\ UNCHANGED <<mapLoaded, showStations, displayMode>>

NextRedraw ==
  \/ MapLoad
  \/ MapEvent
  \/ Rerender
  \/ ToggleStations
  \/ ToggleDisplayMode
  \/ DataChange
  \/ \E f \in frames : FrameFires(f)

\* C3: at most one frame requested by redraw() is pending, it is the one
\* animationFrameRef holds, and a redraw frame that runs drawStationPlots is
\* the one requested last.
C3_RedrawCoalesced ==
  /\ Cardinality({f \in frames : f.kind = "redraw"}) <= 1
  /\ \A f \in frames : f.kind = "redraw" => f.id = animationFrameRef
  /\ lastRun.kind = "redraw" => lastRun.id = animationFrameRef

\* a second map event arrived while a redraw frame was pending, and the frame
\* requested last has run
C3_Witness ==
  /\ coalesced
  /\ lastRun.kind = "redraw"
  /\ lastRun.id = animationFrameRef

\* the mount-draw effect runs whose cleanup has run: the handle of their
\* outer frame is no longer the one the pending cleanup holds
CleanedUp(f) == f.kind = "raf2" /\ f.outer # raf1Ref

\* C29: the cleanup of the effect that schedules the two nested animation
\* frames for the station-plot draw cancels everything that effect run
\* scheduled: once the cleanup has run, no frame of that effect run is
\* pending and its drawStationPlots call does not execute.
C29_CleanupCancelsBothFrames ==
  /\ \A f \in frames : ~CleanedUp(f)
  /\ ~CleanedUp(lastRun)

\* the cleanup does cancel the outer frame while it is pending: a pending
\* outer frame is the one of the effect run not yet cleaned up
CleanupCancelsOuterFrame ==
  \A f \in frames : f.kind = "raf1" => f.id = raf1Ref

\* the inner frame of a cleaned-up effect run has called drawStationPlots
\* while the stations are hidden or shown as dots
InnerFrameDrewAfterCleanup ==
  /\ CleanedUp(lastRun)
  /\ lastRun.draws
  /\ ~(showStations /\ displayMode = "plots")

(***************************************************************************)
(* Numbers                                                                 *)
(*                                                                         *)
(* A JavaScript number is modelled as an exact rational [fin, n, d] in     *)
(* lowest terms with d > 0, or as a non-finite value (NaN, +-Infinity),    *)
(* fin = FALSE.  Comparisons with a non-finite value are false, arithmetic *)
(* on one is non-finite.  Rounding to float64 is not modelled; the     *)
(* store into a Float32Array is modelled in SpecStore alone (Fround).      *)
(***************************************************************************)
Abs(a) == IF a < 0 THEN -a ELSE a

RECURSIVE Gcd(_, _)
Gcd(a, b) == IF b = 0 THEN a ELSE Gcd(b, a % b)

NaN == [fin |-> FALSE, n |-> 0, d |-> 1]

Num(a, b) ==
  IF b = 0 THEN NaN
  ELSE LET g == Gcd(Abs(a), Abs(b))
           sgn == IF b < 0 THEN -1 ELSE 1
       IN  [fin |-> TRUE, n |-> sgn * (a \div g), d |-> sgn * (b \div g)]

IntNum(k) == [fin |-> TRUE, n |-> k, d |-> 1]

IsFinite(a) == a.fin

\* sums and products are formed over the least common denominator, to keep
\* the integers small
Add(a, b) ==
  IF a.fin /\ b.fin
  THEN LET g == Gcd(a.d, b.d)
       IN  Num(a.n * (b.d \div g) + b.n * (a.d \div g), (a.d \div g) * b.d)
  ELSE NaN

Neg(a) == IF a.fin THEN [fin |-> TRUE, n |-> -a.n, d |-> a.d] ELSE NaN

Sub(a, b) == Add(a, Neg(b))

Mul(a, b) ==
  IF a.fin /\ b.fin
  THEN LET g1 == Gcd(Abs(a.n), b.d)
           g2 == Gcd(Abs(b.n), a.d)
       IN  Num((a.n \div g1) * (b.n \div g2), (a.d \div g2) * (b.d \div g1))
  ELSE NaN

Div(a, b) ==
  IF a.fin /\ b.fin /\ b.n # 0 THEN Mul(a, Num(b.d, b.n)) ELSE NaN

\* Math.floor and Math.ceil of a finite number
Floor(a) == a.n \div a.d
Ceil(a) == -((-a.n) \div a.d)

Lt(a, b) == a.fin /\ b.fin /\ a.n * b.d < b.n * a.d
Le(a, b) == a.fin /\ b.fin /\ a.n * b.d <= b.n * a.d
Ge(a, b) == Le(b, a)
Gt(a, b) == Lt(b, a)

\* 1e-9
Tiny == Num(1, 1000000000)

\* x || 1e-9
OrTiny(x) == IF ~x.fin \/ x.n = 0 THEN Tiny ELSE x

(***************************************************************************)
(* contoursForLevel: marching squares for one level                        *)
(***************************************************************************)
\* grid spacing in pixels
GridStep == 24

Pt(x, y) == [x |-> x, y |-> y]

\* the interpolation, twice as far along
interpTwiceAsFar(a, b, t) == Add(a, Mul(Sub(b, a), Add(t, t)))

\* a + (b - a) * t
interp(a, b, t) == Add(a, Mul(Sub(b, a), t))

\* row i, column j
idxTransposed(nx, i, j) == i * nx + j

idx(nx, i, j) == j * nx + i

\* the corners read row by row: v2 and v3 change places
CornersRowByRow(g, nx, i, j) ==
  <<g[idx(nx, i, j)], g[idx(nx, i + 1, j)], g[idx(nx, i, j + 1)],
    g[idx(nx, i + 1, j + 1)]>>

\* the four corners of cell (i, j): top-left, top-right, bottom-right,
\* bottom-left
Corners(g, nx, i, j) ==
  <<g[idx(nx, i, j)], g[idx(nx, i + 1, j)], g[idx(nx, i + 1, j + 1)],
    g[idx(nx, i, j + 1)]>>

\* the skip test with v2 && !isFinite(v3) for its last term: blind to a
\* missing v3 next to a v2 of 0
HasMissingUnlessV2Zero(v) ==
  \/ ~IsFinite(v[1]) \/ ~IsFinite(v[2]) \/ ~IsFinite(v[3])
  \/ (IsFinite(v[3]) /\ v[3].n # 0 /\ ~IsFinite(v[4]))

\* "Skip cells with missing data"
HasMissing(v) ==
  ~IsFinite(v[1]) \/ ~IsFinite(v[2]) \/ ~IsFinite(v[3]) \/ ~IsFinite(v[4])

\* the bitmask, with v0 compared strictly
CellCodeStrictV0(v, level) ==
  (IF Gt(v[1], level) THEN 1 ELSE 0) + (IF Ge(v[2], level) THEN 2 ELSE 0)
  + (IF Ge(v[3], level) THEN 4 ELSE 0) + (IF Ge(v[4], level) THEN 8 ELSE 0)

\* bitmask: 1, 2, 4, 8 for corners >= level
CellCode(v, level) ==
  (IF Ge(v[1], level) THEN 1 ELSE 0) + (IF Ge(v[2], level) THEN 2 ELSE 0)
  + (IF Ge(v[3], level) THEN 4 ELSE 0) + (IF Ge(v[4], level) THEN 8 ELSE 0)

\* the case table with the segment pairs of the two saddles exchanged
CaseTableSaddlesExchanged(c, p01, p12, p23, p30) ==
  CASE c = 1 -> <<<<p30, p01>>>>
    [] c = 2 -> <<<<p01, p12>>>>
    [] c = 3 -> <<<<p30, p12>>>>
    [] c = 4 -> <<<<p12, p23>>>>
    [] c = 5 -> <<<<p01, p30>>, <<p12, p23>>>>
    [] c = 6 -> <<<<p01, p23>>>>
    [] c = 7 -> <<<<p30, p23>>>>
    [] c = 8 -> <<<<p23, p30>>>>
    [] c = 9 -> <<<<p01, p23>>>>
    [] c = 10 -> <<<<p30, p23>>, <<p01, p12>>>>
    [] c = 11 -> <<<<p12, p23>>>>
    [] c = 12 -> <<<<p12, p30>>>>
    [] c = 13 -> <<<<p01, p12>>>>
    [] c = 14 -> <<<<p30, p01>>>>
    [] OTHER -> <<>>

\* the segments of one cell of code c, from the crossing points of its edges
CaseTable(c, p01, p12, p23, p30) ==
  CASE c = 1 -> <<<<p30, p01>>>>
    [] c = 2 -> <<<<p01, p12>>>>
    [] c = 3 -> <<<<p30, p12>>>>
    [] c = 4 -> <<<<p12, p23>>>>
    [] c = 5 -> <<<<p30, p23>>, <<p01, p12>>>>
    [] c = 6 -> <<<<p01, p23>>>>
    [] c = 7 -> <<<<p30, p23>>>>
    [] c = 8 -> <<<<p23, p30>>>>
    [] c = 9 -> <<<<p01, p23>>>>
    [] c = 10 -> <<<<p01, p30>>, <<p12, p23>>>>
    [] c = 11 -> <<<<p12, p23>>>>
    [] c = 12 -> <<<<p12, p30>>>>
    [] c = 13 -> <<<<p01, p12>>>>
    [] c = 14 -> <<<<p30, p01>>>>
    [] OTHER -> <<>>

\* one iteration of the cell loop: the segments cell (i, j) adds to lines
CellSegments(g, nx, step, level, i, j) ==
  LET v == Corners(g, nx, i, j)
      c == CellCode(v, level)
      x == IntNum(i * step)
      y == IntNum(j * step)
      st == IntNum(step)
      zero == IntNum(0)
      t01 == Div(Sub(level, v[1]), OrTiny(Sub(v[2], v[1])))
      t12 == Div(Sub(level, v[2]), OrTiny(Sub(v[3], v[2])))
      t23 == Div(Sub(level, v[3]), OrTiny(Sub(v[4], v[3])))
      t30 == Div(Sub(level, v[4]), OrTiny(Sub(v[1], v[4])))
      p01 == Pt(Add(x, interp(zero, st, t01)), y)
      p12 == Pt(Add(x, st), Add(y, interp(zero, st, t12)))
      p23 == Pt(Add(x, interp(st, zero, t23)), Add(y, st))
      p30 == Pt(x, Add(y, interp(st, zero, t30)))
  IN  IF HasMissing(v) THEN <<>>
      ELSE IF c = 0 \/ c = 15 THEN <<>>
      ELSE CaseTable(c, p01, p12, p23, p30)

\* a cell's segments, each tagged with the cell
Tagged(segs, i, j) ==
  [k \in 1..Len(segs) |-> [a |-> segs[k][1], b |-> segs[k][2], i |-> i, j |-> j]]

\* the cell loop from cell number k on (cells in row-major order)
RECURSIVE CellLoop(_, _, _, _, _, _)
CellLoop(g, nx, ny, step, level, k) ==
  IF k >= (nx - 1) * (ny - 1) THEN <<>>
  ELSE LET i == k % (nx - 1)
           j == k \div (nx - 1)
       IN  Tagged(CellSegments(g, nx, step, level, i, j), i, j)
             \o CellLoop(g, nx, ny, step, level, k + 1)

ContoursForLevel(g, nx, ny, step, level) == CellLoop(g, nx, ny, step, level, 0)

\* the values a grid node holds in the sampled grids, and the sampled levels
NodeValues == {NaN, IntNum(0), IntNum(1), IntNum(3)}
ContourLevels == {IntNum(1), IntNum(2)}

\* a strip of GridCells cells, laid out along x or along y
GridShapes == {<<GridCells + 1, 2>>, <<2, GridCells + 1>>}

InitContour ==
  /\ \E sh \in GridShapes : cNx = sh[1] /\ cNy = sh[2]
  /\ cGrid \in [0..(cNx * cNy - 1) -> NodeValues]
  /\ cStep = GridStep
  /\ cLevel \in ContourLevels
  /\ cLines = <<>>
  /\ cPc = "call"

\* segments = contoursForLevel(gridVals, nx, ny, step, level)
CallContours ==
  /\ UNCHANGED notContour
  /\ cPc = "call"
  /\ cLines' = ContoursForLevel(cGrid, cNx, cNy, cStep, cLevel)
  /\ cPc' = "done"
  /\ UNCHANGED <<cGrid, cNx, cNy, cStep, cLevel>>

NextContour == CallContours

(***************************************************************************)
(* Claims about contoursForLevel                                           *)
(***************************************************************************)
CellsOf(nx, ny) == (0..(nx - 2)) \X (0..(ny - 2))

NodesOf(nx, ny) == (0..(nx - 1)) \X (0..(ny - 1))

\* all four corners are >= level, or all four are < level
UniformCell(g, nx, cell, level) ==
  LET v == Corners(g, nx, cell[1], cell[2])
  IN  \/ \A k \in 1..4 : Ge(v[k], level)
      \/ \A k \in 1..4 : Lt(v[k], level)

\* at least one corner is not finite
MissingCorner(g, nx, cell) ==
  \E k \in 1..4 : ~IsFinite(Corners(g, nx, cell[1], cell[2])[k])

NodePos(node, step) == Pt(IntNum(node[1] * step), IntNum(node[2] * step))

\* nodes joined by one grid edge
Adjacent(n, m) == Abs(n[1] - m[1]) + Abs(n[2] - m[2]) = 1

\* point p lies on the (closed) grid edge between the adjacent nodes n and m
OnEdge(p, n, m, step) ==
  LET a == NodePos(n, step)
      b == NodePos(m, step)
  IN  IF n[2] = m[2]
      THEN /\ p.y = a.y
           /\ \/ Le(a.x, p.x) /\ Le(p.x, b.x)
              \/ Le(b.x, p.x) /\ Le(p.x, a.x)
      ELSE /\ p.x = a.x
           /\ \/ Le(a.y, p.y) /\ Le(p.y, b.y)
              \/ Le(b.y, p.y) /\ Le(p.y, a.y)

MissingNodes == {n \in NodesOf(cNx, cNy) : ~IsFinite(cGrid[idx(cNx, n[1], n[2])])}

Endpoints == {cLines[k].a : k \in 1..Len(cLines)} \cup {cLines[k].b : k \in 1..Len(cLines)}

\* C4: no returned segment comes from a cell whose four corners are all
\* >= level or all < level.
C4_NoSegmentInUniformCell ==
  cPc = "done" =>
    \A k \in 1..Len(cLines) :
      ~UniformCell(cGrid, cNx, <<cLines[k].i, cLines[k].j>>, cLevel)

\* a grid with a cell that is >= the level at all four corners, one of them
\* equal to the level, next to a cell that is crossed
C4_Witness ==
  /\ cPc = "done"
  /\ Len(cLines) > 0
  /\ \E cell \in CellsOf(cNx, cNy) :
       LET v == Corners(cGrid, cNx, cell[1], cell[2])
       IN  /\ \A k \in 1..4 : Ge(v[k], cLevel)
           /\ \E k \in 1..4 : v[k] = cLevel

\* C6 as stated: no segment comes from a cell with a non-finite corner, and
\* no segment endpoint lies on a grid edge incident to a no-data node.
C6_NoEndpointOnMissingEdge ==
  cPc = "done" =>
    /\ \A k \in 1..Len(cLines) :
         ~MissingCorner(cGrid, cNx, <<cLines[k].i, cLines[k].j>>)
    /\ \A n \in MissingNodes : \A m \in NodesOf(cNx, cNy) : \A p \in Endpoints :
         Adjacent(n, m) => ~OnEdge(p, n, m, cStep)

\* C6, amended: no segment comes from a cell with a non-finite corner; an
\* endpoint meets a grid edge incident to a no-data node only at the edge's
\* other end, at a node that holds a value.
C6_MissingCellSkipped ==
  cPc = "done" =>
    /\ \A k \in 1..Len(cLines) :
         ~MissingCorner(cGrid, cNx, <<cLines[k].i, cLines[k].j>>)
    /\ \A n \in MissingNodes : \A m \in NodesOf(cNx, cNy) : \A p \in Endpoints :
         (Adjacent(n, m) /\ OnEdge(p, n, m, cStep)) =>
            (p = NodePos(m, cStep) /\ IsFinite(cGrid[idx(cNx, m[1], m[2])]))

\* a cell with one no-data corner whose other corners straddle the level was
\* skipped, and its neighbour produced a segment
C6_Witness ==
  /\ cPc = "done"
  /\ Len(cLines) > 0
  /\ \E cell \in CellsOf(cNx, cNy) :
       LET v == Corners(cGrid, cNx, cell[1], cell[2])
       IN  /\ MissingCorner(cGrid, cNx, cell)
           /\ \E k \in 1..4 : Ge(v[k], cLevel)
           /\ \E k \in 1..4 : Lt(v[k], cLevel)

\* the corner nodes of a cell, and its four edges
CornerNodes(cell) ==
  {<<cell[1], cell[2]>>, <<cell[1] + 1, cell[2]>>, <<cell[1] + 1, cell[2] + 1>>,
   <<cell[1], cell[2] + 1>>}

CellEdges(cell) ==
  {e \in SUBSET CornerNodes(cell) :
     Cardinality(e) = 2 /\ \A n \in e : \A m \in e : n # m => Adjacent(n, m)}

ValueAt(n) == cGrid[idx(cNx, n[1], n[2])]

AboveLevel(n) == Ge(ValueAt(n), cLevel)

\* p is where the value, linear along edge e, equals the level, and the two
\* ends of e lie on opposite sides of the level
CrossingOf(p, e) ==
  \E n \in e : \E m \in e :
    /\ AboveLevel(n) /\ ~AboveLevel(m)
    /\ LET pn == NodePos(n, cStep)
           pm == NodePos(m, cStep)
           rise == Sub(ValueAt(m), ValueAt(n))
           need == Sub(cLevel, ValueAt(n))
       IN  /\ Mul(Sub(p.x, pn.x), rise) = Mul(need, Sub(pm.x, pn.x))
           /\ Mul(Sub(p.y, pn.y), rise) = Mul(need, Sub(pm.y, pn.y))

\* segment s joins the crossing points of two edges of its cell
JoinsCrossings(s) ==
  \E e1 \in CellEdges(<<s.i, s.j>>) : \E e2 \in CellEdges(<<s.i, s.j>>) :
    e1 # e2 /\ CrossingOf(s.a, e1) /\ CrossingOf(s.b, e2)

\* segment s joins the crossing points of the two edges that meet at corner n
CutsOff(s, n) ==
  \E e1 \in CellEdges(<<s.i, s.j>>) : \E e2 \in CellEdges(<<s.i, s.j>>) :
    /\ e1 # e2 /\ n \in e1 /\ n \in e2
    /\ CrossingOf(s.a, e1) /\ CrossingOf(s.b, e2)

SegmentsOfCell(cell) == {k \in 1..Len(cLines) : cLines[k].i = cell[1] /\ cLines[k].j = cell[2]}

\* four finite corners, not all on one side of the level
CrossedCell(cell) ==
  /\ ~MissingCorner(cGrid, cNx, cell)
  /\ ~UniformCell(cGrid, cNx, cell, cLevel)

\* codes 5 and 10: the corners at or above the level are one diagonal
SaddleCell(cell) ==
  /\ CrossedCell(cell)
  /\ \A n \in CornerNodes(cell) : \A m \in CornerNodes(cell) :
       Adjacent(n, m) => (AboveLevel(n) # AboveLevel(m))

\* C19: in a cell with four finite corners and a non-uniform code every
\* segment joins the crossing points of two edges whose ends lie on
\* opposite sides of the level; a saddle cell gives two segments, each
\* cutting off one of its two below-level corners; any other such cell
\* gives exactly one segment.
C19_SegmentPatterns ==
  cPc = "done" =>
    \A cell \in CellsOf(cNx, cNy) :
      CrossedCell(cell) =>
        /\ \A k \in SegmentsOfCell(cell) : JoinsCrossings(cLines[k])
        /\ IF SaddleCell(cell)
           THEN /\ Cardinality(SegmentsOfCell(cell)) = 2
                /\ \A n \in CornerNodes(cell) :
                     ~AboveLevel(n) =>
                       \E k \in SegmentsOfCell(cell) : CutsOff(cLines[k], n)
                /\ \A k \in SegmentsOfCell(cell) :
                     \E n \in CornerNodes(cell) :
                       ~AboveLevel(n) /\ CutsOff(cLines[k], n)
           ELSE Cardinality(SegmentsOfCell(cell)) = 1

\* point p lies on the boundary of the cell
OnCellBoundary(p, cell, step) ==
  LET x0 == IntNum(cell[1] * step)
      x1 == IntNum((cell[1] + 1) * step)
      y0 == IntNum(cell[2] * step)
      y1 == IntNum((cell[2] + 1) * step)
  IN  /\ IsFinite(p.x) /\ IsFinite(p.y)
      /\ Le(x0, p.x) /\ Le(p.x, x1)
      /\ Le(y0, p.y) /\ Le(p.y, y1)
      /\ p.x = x0 \/ p.x = x1 \/ p.y = y0 \/ p.y = y1

\* C25: every endpoint of every segment lies on the boundary of the cell
\* that produced it: its coordinates are within
\* [i*step, (i+1)*step] x [j*step, (j+1)*step], also when adjacent corners
\* of the cell tie or a corner equals the level.
C25_EndpointsOnCellBoundary ==
  cPc = "done" =>
    \A k \in 1..Len(cLines) :
      /\ OnCellBoundary(cLines[k].a, <<cLines[k].i, cLines[k].j>>, cStep)
      /\ OnCellBoundary(cLines[k].b, <<cLines[k].i, cLines[k].j>>, cStep)

\* a segment came from a cell with two adjacent corners that tie and a
\* corner equal to the level, and one of its endpoints is a grid node
C25_Witness ==
  /\ cPc = "done"
  /\ \E k \in 1..Len(cLines) :
       LET cell == <<cLines[k].i, cLines[k].j>>
       IN  /\ \E n \in CornerNodes(cell) : \E m \in CornerNodes(cell) :
                Adjacent(n, m) /\ ValueAt(n) = ValueAt(m)
           /\ \E n \in CornerNodes(cell) :
                ValueAt(n) = cLevel /\ cLines[k].a = NodePos(n, cStep)

\* the sum of the four corners of a cell, against four times the level:
\* the side of the level the cell-centre mean lies on
CentreAbove(cell) ==
  LET v == Corners(cGrid, cNx, cell[1], cell[2])
  IN  Ge(Add(Add(v[1], v[2]), Add(v[3], v[4])), Mul(IntNum(4), cLevel))

\* two saddle cells side by side, one of code 5 and one of code 10, the
\* centre mean of one at or above the level and of the other below it
C19_Witness ==
  /\ cPc = "done"
  /\ \E c1 \in CellsOf(cNx, cNy) : \E c2 \in CellsOf(cNx, cNy) :
       /\ SaddleCell(c1) /\ SaddleCell(c2)
       /\ AboveLevel(c1) /\ ~AboveLevel(c2)
       /\ CentreAbove(c1) /\ ~CentreAbove(c2)
       /\ Cardinality(SegmentsOfCell(c1)) = 2
       /\ Cardinality(SegmentsOfCell(c2)) = 2

(***************************************************************************)
(* thinByPixelGrid: at most one station per pixel bucket                   *)
(*                                                                         *)
(* A station is [id, x, y]: x, y is the pixel map.project answers for it,   *)
(* rounded down to a whole pixel: cellSizePx is a whole number, and for a   *)
(* whole c > 0, floor(x / c) = floor(floor(x) / c).                        *)
(***************************************************************************)
\* `${Math.floor(p.x / cellSizePx)}:${Math.floor(p.y / cellSizePx)}`
BucketKey(s, cell) == ToString(s.x \div cell) \o ":" \o ToString(s.y \div cell)

\* the loop body, forgetting to record the key
ThinStepForgetsKey(st, s, cell) ==
  LET key == BucketKey(s, cell)
  IN  IF key \in st.seen THEN st
      ELSE [seen |-> st.seen, out |-> Append(st.out, s)]

\* the loop body, adding at the front of out
ThinStepPrepends(st, s, cell) ==
  LET key == BucketKey(s, cell)
  IN  IF key \in st.seen THEN st
      ELSE [seen |-> st.seen \cup {key}, out |-> <<s>> \o st.out]

\* the loop body for station s; st = [seen, out]
ThinStep(st, s, cell) ==
  LET key == BucketKey(s, cell)
  IN  IF key \in st.seen THEN st
      ELSE [seen |-> st.seen \cup {key}, out |-> Append(st.out, s)]

RECURSIVE ThinLoop(_, _, _, _)
ThinLoop(st, stations, cell, k) ==
  IF k > Len(stations) THEN st
  ELSE ThinLoop(ThinStep(st, stations[k], cell), stations, cell, k + 1)

ThinByPixelGrid(stations, cell) ==
  ThinLoop([seen |-> {}, out |-> <<>>], stations, cell, 1).out

\* sampled pixel positions, and two of the bucket sizes declutteredObs
\* computes (22 * 0.25 and 30 * 0.25, rounded)
PixelXs == {-7, -1, 0, 5, 6}
PixelYs == {0, 7}
CellSizes == {6, 8}

StationLists(max) ==
  UNION {{[k \in 1..n |-> [id |-> k, x |-> f[k][1], y |-> f[k][2]]] :
            f \in [1..n -> PixelXs \X PixelYs]} : n \in 0..max}

InitThin ==
  /\ tStations \in StationLists(MaxStations)
  /\ tInput = tStations
  /\ tCell \in CellSizes
  /\ tOut = <<>>
  /\ tPc = "call"

\* thinByPixelGrid(obs, map, cell)
CallThin ==
  /\ UNCHANGED notThin
  /\ tPc = "call"
  /\ tOut' = ThinByPixelGrid(tStations, tCell)
  /\ tPc' = "done"
  /\ UNCHANGED <<tStations, tInput, tCell>>

NextThin == CallThin

(***************************************************************************)
(* Claims about thinByPixelGrid                                            *)
(***************************************************************************)
\* the bucket (floor(x / cell), floor(y / cell)) of a station
Bucket(s, cell) == <<s.x \div cell, s.y \div cell>>

\* out is in, with some elements left out
IsSubsequence(out, in) ==
  \E f \in [1..Len(out) -> 1..Len(in)] :
    /\ \A k \in 1..Len(out) : in[f[k]] = out[k]
    /\ \A k \in 1..Len(out) : \A l \in 1..Len(out) : k < l => f[k] < f[l]

\* C7: the result holds at most one station per bucket, and each station it
\* holds is the first of the input, in input order, in its bucket.
C7_OnePerBucketFirstKept ==
  tPc = "done" =>
    /\ \A k \in 1..Len(tOut) : \A l \in 1..Len(tOut) :
         k # l => Bucket(tOut[k], tCell) # Bucket(tOut[l], tCell)
    /\ \A k \in 1..Len(tOut) : \E i \in 1..Len(tInput) :
         /\ tInput[i] = tOut[k]
         /\ \A h \in 1..(i - 1) : Bucket(tInput[h], tCell) # Bucket(tInput[i], tCell)

\* two stations of one bucket (one of them at a negative pixel) and a third
\* of another bucket were thinned to two
C7_Witness ==
  /\ tPc = "done"
  /\ Len(tInput) = 3
  /\ Len(tOut) = 2
  /\ \E k \in 1..3 : tInput[k].x < 0

\* C8: the result is a subsequence of the input in input order, without
\* duplicates, and the input list is as the caller passed it.
C8_OrderPreservingSubsequence ==
  tPc = "done" =>
    /\ IsSubsequence(tOut, tInput)
    /\ \A k \in 1..Len(tOut) : \A l \in 1..Len(tOut) : k # l => tOut[k] # tOut[l]
    /\ tStations = tInput

\* the middle station of three was dropped
C8_Witness ==
  /\ tPc = "done"
  /\ Len(tInput) = 3
  /\ tOut = <<tInput[1], tInput[3]>>

(***************************************************************************)
(* drawOne, from the built grid on: min/max, levels, the draw loop and the *)
(* freezing line                                                           *)
(***************************************************************************)
\* Infinity and -Infinity, the start values of the min/max scan
PosInf == [fin |-> FALSE, n |-> 1, d |-> 0]
NegInf == [fin |-> FALSE, n |-> -1, d |-> 0]

\* the min/max scan from entry k on; mm = [min, max]
RECURSIVE MinMaxLoop(_, _, _, _)
MinMaxLoop(mm, g, len, k) ==
  IF k >= len THEN mm
  ELSE LET v == g[k]
       IN  IF ~IsFinite(v) THEN MinMaxLoop(mm, g, len, k + 1)
           ELSE MinMaxLoop(
                  [min |-> IF mm.min = PosInf \/ Lt(v, mm.min) THEN v ELSE mm.min,
                   max |-> IF mm.max = NegInf \/ Gt(v, mm.max) THEN v ELSE mm.max],
                  g, len, k + 1)

MinMax(g, len) == MinMaxLoop([min |-> PosInf, max |-> NegInf], g, len, 0)

FreezingLevel(unit) == IF unit = "F" THEN 32 ELSE 0
TempInterval(unit) == IF unit = "F" THEN 5 ELSE 2
DpThreshold(unit) == IF unit = "F" THEN 45 ELSE 8
DpStep(unit) == IF unit = "F" THEN 5 ELSE 2
SlpBase == 1000
StepMb == 4

\* Math.ceil(minV / interval) * interval
LevelStartCeil(minV, interval) == Ceil(Div(minV, IntNum(interval))) * interval

\* Math.floor(minV / interval) * interval
LevelStart(minV, interval) == Floor(Div(minV, IntNum(interval))) * interval

\* Math.ceil(maxV / interval) * interval
LevelEnd(maxV, interval) == Ceil(Div(maxV, IntNum(interval))) * interval

\* for (let v = start; v <= end; v += interval)
RECURSIVE LevelLoop(_, _, _)
LevelLoop(v, end, interval) ==
  IF v > end THEN <<>> ELSE <<v>> \o LevelLoop(v + interval, end, interval)

\* the loop without its threshold test
AtOrAboveKeepsAll(levels, threshold) == levels

\* if (v >= dpThreshold) levels.push(v)
AtOrAbove(levels, threshold) == SelectSeq(levels, LAMBDA v : v >= threshold)

\* "build levels"
BuildLevelList(mode, unit, minV, maxV) ==
  CASE mode = "temp" ->
         LevelLoop(LevelStart(minV, TempInterval(unit)),
                   LevelEnd(maxV, TempInterval(unit)), TempInterval(unit))
    [] mode = "dewpoint" ->
         AtOrAbove(LevelLoop(LevelStart(minV, DpStep(unit)),
                             LevelEnd(maxV, DpStep(unit)), DpStep(unit)),
                   DpThreshold(unit))
    [] mode = "slp" ->
         LET kStart == Floor(Div(Sub(minV, IntNum(SlpBase)), IntNum(StepMb)))
             kEnd == Ceil(Div(Sub(maxV, IntNum(SlpBase)), IntNum(StepMb)))
         IN  [k \in 1..(kEnd - kStart + 1) |-> SlpBase + (kStart + k - 1) * StepMb]

\* the freezing-line pass, skipped when the draw loop had the freezing level
FreezePassOffGridOnly(mode, unit, levels) ==
  IF mode = "temp" /\ \A k \in 1..Len(levels) : levels[k] # FreezingLevel(unit)
  THEN <<FreezingLevel(unit)>> ELSE <<>>

\* "emphasize freezing line": the levels contoured after the draw loop
FreezePass(mode, unit, levels) ==
  IF mode = "temp" THEN <<FreezingLevel(unit)>> ELSE <<>>

\* a stroke of n segments at a level; nothing is stroked for no segments
Strokes(level, pass, segs) ==
  IF Len(segs) = 0 THEN <<>>
  ELSE <<[level |-> level, pass |-> pass, n |-> Len(segs)]>>

\* node values of the sampled grids, per field and unit
FieldSamples(mode, unit) ==
  {NaN} \cup
  (CASE mode = "temp" /\ unit = "F" -> {IntNum(29), IntNum(31), Num(67, 2), IntNum(36)}
     [] mode = "temp" /\ unit = "C" -> {Num(-7, 2), IntNum(0), Num(1, 2), IntNum(3)}
     [] mode = "dewpoint" /\ unit = "F" ->
          {IntNum(38), IntNum(43), IntNum(45), Num(93, 2), IntNum(51)}
     [] mode = "dewpoint" /\ unit = "C" ->
          {IntNum(5), IntNum(7), IntNum(8), Num(17, 2), IntNum(11)}
     [] mode = "slp" -> {IntNum(997), IntNum(1000), Num(2005, 2), IntNum(1004)})

InitLevels ==
  /\ dMode \in {"temp", "dewpoint", "slp"}
  /\ dUnit \in {"F", "C"}
  /\ dNx = LevelCells + 1
  /\ dNy = 2
  /\ dGrid \in [0..(dNx * dNy - 1) -> FieldSamples(dMode, dUnit)]
  /\ dMinV = PosInf
  /\ dMaxV = NegInf
  /\ dLevels = <<>>
  /\ dK = 0
  /\ dCalls = <<>>
  /\ dDrawn = <<>>
  /\ dPc = "grid"

\* the min/max scan, the return without a finite value, "build levels"
BuildLevels ==
  /\ UNCHANGED notLevel
  /\ dPc = "grid"
  /\ LET mm == MinMax(dGrid, dNx * dNy)
     IN  /\ dMinV' = mm.min
         /\ dMaxV' = mm.max
         /\ IF ~IsFinite(mm.min) \/ ~IsFinite(mm.max)
            THEN /\ dPc' = "skipped"
                 /\ UNCHANGED <<dLevels, dK>>
            ELSE /\ dLevels' = BuildLevelList(dMode, dUnit, mm.min, mm.max)
                 /\ dK' = 1
                 /\ dPc' = "draw"
  /\ UNCHANGED <<dMode, dUnit, dGrid, dNx, dNy, dCalls, dDrawn>>

\* one iteration of the draw loop
DrawLevel ==
  /\ UNCHANGED notLevel
  /\ dPc = "draw"
  /\ dK <= Len(dLevels)
  /\ LET level == dLevels[dK]
         segments == ContoursForLevel(dGrid, dNx, dNy, GridStep, IntNum(level))
     IN  /\ dCalls' = Append(dCalls, level)
         /\ dDrawn' = dDrawn \o Strokes(level, "level", segments)
  /\ dK' = dK + 1
  /\ UNCHANGED <<dMode, dUnit, dGrid, dNx, dNy, dMinV, dMaxV, dLevels, dPc>>

\* after the draw loop: the freezing line, and the return
FreezingLine ==
  /\ UNCHANGED notLevel
  /\ dPc = "draw"
  /\ dK > Len(dLevels)
  /\ LET pass == FreezePass(dMode, dUnit, dLevels)
     IN  /\ dCalls' = dCalls \o pass
         /\ dDrawn' =
              IF Len(pass) = 0 THEN dDrawn
              ELSE dDrawn \o Strokes(pass[1], "freeze",
                     ContoursForLevel(dGrid, dNx, dNy, GridStep, IntNum(pass[1])))
  /\ dPc' = "done"
  /\ UNCHANGED <<dMode, dUnit, dGrid, dNx, dNy, dMinV, dMaxV, dLevels, dK>>

NextLevels == BuildLevels \/ DrawLevel \/ FreezingLine

(***************************************************************************)
(* Claims about the levels                                                 *)
(***************************************************************************)
LevelsBuilt == dPc \in {"draw", "done"}

\* smallest level <= min and largest level >= max
Brackets(levels, minV, maxV) ==
  /\ Len(levels) > 0
  /\ Le(IntNum(levels[1]), minV)
  /\ Ge(IntNum(levels[Len(levels)]), maxV)

\* C9 as stated: for every field and every grid with a finite min and max,
\* the level list brackets the grid: smallest level <= min, largest >= max.
C9_LevelsBracket ==
  LevelsBuilt => Brackets(dLevels, dMinV, dMaxV)

\* C9, amended: the temperature and the pressure list bracket the grid; the
\* dewpoint list brackets it when min >= the dewpoint threshold, and
\* otherwise holds only the levels >= the threshold: it is empty when max <=
\* threshold - step, and else runs from the threshold to a level >= max.
C9_LevelsBracketAboveThreshold ==
  LevelsBuilt =>
    IF dMode = "dewpoint" /\ Lt(dMinV, IntNum(DpThreshold(dUnit)))
    THEN IF Le(dMaxV, IntNum(DpThreshold(dUnit) - DpStep(dUnit)))
         THEN dLevels = <<>>
         ELSE /\ Len(dLevels) > 0
              /\ dLevels[1] = DpThreshold(dUnit)
              /\ Ge(IntNum(dLevels[Len(dLevels)]), dMaxV)
    ELSE Brackets(dLevels, dMinV, dMaxV)

\* a dewpoint grid that straddles the threshold got its levels
C9_Witness ==
  /\ LevelsBuilt
  /\ dMode = "dewpoint"
  /\ Lt(dMinV, IntNum(DpThreshold(dUnit)))
  /\ Gt(dMaxV, IntNum(DpThreshold(dUnit)))
  /\ Len(dLevels) > 0

\* C10: when the temperature field is contoured, contoursForLevel is called
\* once more, after the calls for the level list, at the freezing level,
\* whether or not the freezing level is in the list.
C10_FreezingLevelAlwaysContoured ==
  (dPc = "done" /\ dMode = "temp") =>
    /\ Len(dCalls) = Len(dLevels) + 1
    /\ SubSeq(dCalls, 1, Len(dLevels)) = dLevels
    /\ dCalls[Len(dCalls)] = FreezingLevel(dUnit)

\* the freezing line was stroked for a grid whose level list does not hold
\* the freezing level
C10_Witness ==
  /\ dPc = "done"
  /\ dMode = "temp"
  /\ \A k \in 1..Len(dLevels) : dLevels[k] # FreezingLevel(dUnit)
  /\ Len(dDrawn) > 0
  /\ dDrawn[Len(dDrawn)].pass = "freeze"

\* the levels contoursForLevel was called with, and the levels stroked
Contoured == {dCalls[k] : k \in 1..Len(dCalls)} \cup {dDrawn[k].level : k \in 1..Len(dDrawn)}

\* the grid maximum rounds up, to a multiple of the dewpoint step, to less
\* than the threshold
RoundsUpBelowThreshold ==
  \E m \in 0..DpThreshold(dUnit) :
    /\ m % DpStep(dUnit) = 0
    /\ m < DpThreshold(dUnit)
    /\ Le(dMaxV, IntNum(m))

\* C20: every dewpoint level that is contoured is >= the threshold (45 in F,
\* 8 in C) and a multiple of the step (5 in F, 2 in C); when the grid
\* maximum rounds up to less than the threshold the level list is empty and
\* no dewpoint contour is drawn.
C20_DewpointLevelsAboveThreshold ==
  dMode = "dewpoint" =>
    /\ \A v \in Contoured \cup {dLevels[k] : k \in 1..Len(dLevels)} :
         /\ v >= (IF dUnit = "F" THEN 45 ELSE 8)
         /\ v % (IF dUnit = "F" THEN 5 ELSE 2) = 0
    /\ (LevelsBuilt /\ RoundsUpBelowThreshold) =>
         (dLevels = <<>> /\ dCalls = <<>> /\ dDrawn = <<>>)

\* a dewpoint grid reaching more than a step below the threshold and above
\* it was contoured and got a stroke
C20_Witness ==
  /\ dPc = "done"
  /\ dMode = "dewpoint"
  /\ Le(dMinV, IntNum(DpThreshold(dUnit) - DpStep(dUnit)))
  /\ Len(dCalls) > 0
  /\ Len(dDrawn) > 0

\* a dewpoint grid wholly below the threshold came out with no level
DewpointBelowThresholdDone ==
  /\ dPc = "done"
  /\ dMode = "dewpoint"
  /\ IsFinite(dMaxV)
  /\ RoundsUpBelowThreshold
  /\ dLevels = <<>>

(***************************************************************************)
(* drawOne, the grid build: inverse-distance weighting of the field's      *)
(* points onto the grid nodes                                              *)
(*                                                                         *)
(* A grid entry is the weighted mean before its rounding to 32 bits in the *)
(* Float32Array; the rounding keeps a mean of finite values finite and NaN *)
(* NaN.                                                                    *)
(***************************************************************************)
Power == 2
MaxRadius == 200
MaxRadius2 == MaxRadius * MaxRadius
KMax == 10

\* the place of a new neighbor: before the first one that is farther
RECURSIVE InsertPos(_, _, _)
InsertPos(neighbors, d2, k) ==
  IF k > Len(neighbors) THEN k
  ELSE IF d2 < neighbors[k].d2 THEN k
  ELSE InsertPos(neighbors, d2, k + 1)

\* neighbors.splice(k, 0, nb), or neighbors.push(nb)
InsertNeighbor(neighbors, nb) ==
  LET k == InsertPos(neighbors, nb.d2, 1)
  IN  SubSeq(neighbors, 1, k - 1) \o <<nb>> \o SubSeq(neighbors, k, Len(neighbors))

\* the list cut at its front
ShiftBeyondKMax(neighbors) ==
  IF Len(neighbors) > KMax THEN SubSeq(neighbors, 2, Len(neighbors))
  ELSE neighbors

\* if (neighbors.length > kMax) neighbors.pop()
PopBeyondKMax(neighbors) ==
  IF Len(neighbors) > KMax THEN SubSeq(neighbors, 1, Len(neighbors) - 1)
  ELSE neighbors

\* the loop over pts for the node at (gx, gy), from point k on
RECURSIVE NeighborLoop(_, _, _, _, _)
NeighborLoop(neighbors, pts, gx, gy, k) ==
  IF k > Len(pts) THEN neighbors
  ELSE LET p == pts[k]
           dx == p.x - gx
           dy == p.y - gy
           d2 == dx * dx + dy * dy
       IN  IF d2 > MaxRadius2 THEN NeighborLoop(neighbors, pts, gx, gy, k + 1)
           ELSE NeighborLoop(
                  PopBeyondKMax(InsertNeighbor(neighbors, [d2 |-> d2, val |-> p.val])),
                  pts, gx, gy, k + 1)

\* the weight with the squared distance floored at 1
WeightFloorOne(d2) == Num(1, Max(d2, 1) ^ (Power \div 2))

\* w = 1 / Math.pow(Math.max(n.d2, 9), power / 2)
Weight(d2) == Num(1, Max(d2, 9) ^ (Power \div 2))

\* the sums over the neighbors from k on; sums = [w, v]
RECURSIVE WeightLoop(_, _, _)
WeightLoop(sums, neighbors, k) ==
  IF k > Len(neighbors) THEN sums
  ELSE LET w == Weight(neighbors[k].d2)
       IN  WeightLoop([w |-> Add(sums.w, w),
                       v |-> Add(sums.v, Mul(w, neighbors[k].val))],
                      neighbors, k + 1)

\* the neighbor test, asking for two
TooFewNeighborsTwo(neighbors) == Len(neighbors) < 2

\* if (neighbors.length < 3) continue
TooFewNeighbors(neighbors) == Len(neighbors) < 3

\* neighbors whose whole-number values are written as numbers
NumVals(neighbors) ==
  [k \in 1..Len(neighbors) |->
     [d2 |-> neighbors[k].d2, val |-> IntNum(neighbors[k].val)]]

\* vSum / wSum for the neighbors of a node, NaN where the loop body goes on
\* to the next node
NodeMean(neighbors) ==
  LET sums == WeightLoop([w |-> IntNum(0), v |-> IntNum(0)], neighbors, 1)
  IN  IF TooFewNeighbors(neighbors) THEN NaN
      ELSE IF Le(sums.w, IntNum(0)) THEN NaN
      ELSE Div(sums.v, sums.w)

\* what the loop body leaves in gridVals for the node at (gx, gy), for
\* points with whole-number values
NodeValue(pts, gx, gy) == NodeMean(NumVals(NeighborLoop(<<>>, pts, gx, gy, 1)))

\* sampled pixel positions of the points: at nodes, on the rim of the search
\* radius of the node at the origin, and beyond it
PtPositions == {<<0, 0>>, <<24, 0>>, <<200, 0>>, <<224, 0>>}
PtValues == {1, 3}

\* sampled canvas sizes: two nodes along x, two nodes along y
CanvasSizes == {<<30, 10>>, <<10, 30>>}

PtLists(max) ==
  UNION {{[k \in 1..n |-> [x |-> f[k][1][1], y |-> f[k][1][2], val |-> f[k][2]]] :
            f \in [1..n -> PtPositions \X PtValues]} : n \in 0..max}

InitField ==
  /\ fPts \in PtLists(MaxPts)
  /\ \E sz \in CanvasSizes : fWidth = sz[1] /\ fHeight = sz[2]
  /\ fNx = 0
  /\ fNy = 0
  /\ fGrid = <<>>
  /\ fK = 0
  /\ fPc = "start"

\* the return for fewer than 3 points; nx, ny and gridVals filled with NaN
StartField ==
  /\ UNCHANGED notField
  /\ fPc = "start"
  /\ IF Len(fPts) < 3
     THEN /\ fPc' = "skipped"
          /\ UNCHANGED <<fNx, fNy, fGrid>>
     ELSE /\ fNx' = (fWidth \div GridStep) + 1
          /\ fNy' = (fHeight \div GridStep) + 1
          /\ fGrid' = [k \in 0..(fNx' * fNy' - 1) |-> NaN]
          /\ fPc' = "build"
  /\ UNCHANGED <<fPts, fWidth, fHeight, fK>>

\* one iteration of the node loops, at node fK = j * nx + i
BuildNode ==
  /\ UNCHANGED notField
  /\ fPc = "build"
  /\ fK < fNx * fNy
  /\ LET i == fK % fNx
         j == fK \div fNx
         v == NodeValue(fPts, i * GridStep, j * GridStep)
     IN  fGrid' = IF IsFinite(v) THEN [fGrid EXCEPT ![idx(fNx, i, j)] = v] ELSE fGrid
  /\ fK' = fK + 1
  /\ fPc' = IF fK + 1 = fNx * fNy THEN "done" ELSE "build"
  /\ UNCHANGED <<fPts, fWidth, fHeight, fNx, fNy>>

NextField == StartField \/ BuildNode

(***************************************************************************)
(* Claims about the grid build                                             *)
(***************************************************************************)
\* the points within the search radius of node (i, j)
InRadius(pts, i, j) ==
  {k \in 1..Len(pts) :
     (pts[k].x - i * GridStep) * (pts[k].x - i * GridStep)
       + (pts[k].y - j * GridStep) * (pts[k].y - j * GridStep) <= 200 * 200}

\* C5: every node of a computed field with fewer than 3 of the field's
\* points within the search radius holds NaN.
C5_SparseNodeIsNaN ==
  fPc \in {"build", "done"} =>
    \A n \in NodesOf(fNx, fNy) :
      Cardinality(InRadius(fPts, n[1], n[2])) < 3 => ~IsFinite(fGrid[idx(fNx, n[1], n[2])])

\* a field of which one node has two points in reach and holds NaN, and the
\* other node holds a value
C5_Witness ==
  /\ fPc = "done"
  /\ \E n \in NodesOf(fNx, fNy) :
       /\ Cardinality(InRadius(fPts, n[1], n[2])) = 2
       /\ ~IsFinite(fGrid[idx(fNx, n[1], n[2])])
  /\ \E n \in NodesOf(fNx, fNy) : IsFinite(fGrid[idx(fNx, n[1], n[2])])

(***************************************************************************)
(* contoursForLevel on one cell: worked examples                           *)
(***************************************************************************)
\* corner values, levels and grid spacings of the sampled single cells
CellValues == {IntNum(10), IntNum(20), IntNum(30), IntNum(40), IntNum(50)}
CellLevels == {IntNum(15), IntNum(35)}
CellSteps == {10, GridStep}

\* a 2 x 2 grid, row-major: v0 = g[0], v1 = g[1], v3 = g[2], v2 = g[3]
InitCell ==
  /\ cNx = 2
  /\ cNy = 2
  /\ cGrid \in [0..3 -> CellValues]
  /\ cStep \in CellSteps
  /\ cLevel \in CellLevels
  /\ cLines = <<>>
  /\ cPc = "call"

\* the grid with corners v0, v1, v2, v3 (top-left, top-right, bottom-right,
\* bottom-left)
CellGrid(v0, v1, v2, v3) ==
  (0 :> IntNum(v0)) @@ (1 :> IntNum(v1)) @@ (2 :> IntNum(v3)) @@ (3 :> IntNum(v2))

\* the segments returned, as pairs of endpoints
Segments == [k \in 1..Len(cLines) |-> <<cLines[k].a, cLines[k].b>>]

IsExampleCall ==
  /\ cNx = 2 /\ cNy = 2
  /\ cGrid = CellGrid(30, 40, 50, 20)
  /\ cStep = 10
  /\ cLevel = IntNum(35)

\* C11: for the cell v0 = 30, v1 = 40, v2 = 50, v3 = 20 at the origin, step
\* 10, level 35, exactly one segment is returned, from (5, 0) to (5, 10).
C11_AuthoritativeExample ==
  (cPc = "done" /\ IsExampleCall) =>
    Segments = <<<<Pt(IntNum(5), IntNum(0)), Pt(IntNum(5), IntNum(10))>>>>

\* the example was run
C11_Witness ==
  /\ cPc = "done"
  /\ IsExampleCall
  /\ Len(cLines) = 1

IsSaddleCall ==
  /\ cNx = 2 /\ cNy = 2
  /\ cGrid \in {CellGrid(10, 20, 10, 20), CellGrid(20, 10, 20, 10)}
  /\ cLevel = IntNum(15)

\* C12: for one cell holding 10, 20, 20, 10 with diagonally opposite corners
\* equal, exactly 2 segments are returned at level 15.
C12_SaddleTwoSegments ==
  (cPc = "done" /\ IsSaddleCall) => Len(cLines) = 2

\* the saddle with its low corners at v0 and v2 was contoured
C12_Witness ==
  /\ cPc = "done"
  /\ IsSaddleCall
  /\ cGrid[0] = IntNum(10)
  /\ Len(cLines) = 2

(***************************************************************************)
(* drawWindBarb: calm circle, or staff with pennants and barbs             *)
(***************************************************************************)
\* null, where a number is expected
Null == [fin |-> FALSE, n |-> 0, d |-> 0]

\* Math.round: the nearest integer, halves upward
Round(a) == Floor(Add(a, Num(1, 2)))

\* Math.floor(spd / 5) * 5
RoundToFiveDown(spd) == Floor(Div(spd, IntNum(5))) * 5

\* Math.round(spd / 5) * 5
RoundToFive(spd) == Round(Div(spd, IntNum(5))) * 5

\* n50, n10, n5 for the speed v, a multiple of 5
Decompose(v) ==
  LET n50 == v \div 50
      v1 == v - n50 * 50
      n10 == v1 \div 10
      v2 == v1 - n10 * 10
      n5 == IF v2 >= 5 THEN 1 ELSE 0
  IN  [n50 |-> n50, n10 |-> n10, n5 |-> n5]

NoBarb(kind) == [kind |-> kind, n50 |-> 0, n10 |-> 0, n5 |-> 0]

\* what drawWindBarb draws for dirDeg and spdKt
DrawWindBarb(dirDeg, spdKt) ==
  IF dirDeg = Null \/ spdKt = Null THEN NoBarb("none")
  ELSE LET spd == IF Lt(spdKt, IntNum(0)) THEN IntNum(0) ELSE spdKt
       IN  IF Lt(spd, IntNum(2)) THEN NoBarb("calm")
           ELSE LET n == Decompose(RoundToFive(spd))
                IN  [kind |-> "barb", n50 |-> n.n50, n10 |-> n.n10, n5 |-> n.n5]

\* sampled speeds: every half knot from -1 to MaxSpeedKt, and null
BarbSpeeds == {Num(k, 2) : k \in -2..(2 * MaxSpeedKt)} \cup {Null}
BarbDirs == {Null, IntNum(0), IntNum(270)}

InitBarb ==
  /\ bDir \in BarbDirs
  /\ bSpd \in BarbSpeeds
  /\ bOut = NoBarb("none")
  /\ bPc = "call"

\* drawWindBarb(ctx, x, y, radius, dirDeg, spdKt)
CallDrawWindBarb ==
  /\ UNCHANGED notBarb
  /\ bPc = "call"
  /\ bOut' = DrawWindBarb(bDir, bSpd)
  /\ bPc' = "done"
  /\ UNCHANGED <<bDir, bSpd>>

NextBarb == CallDrawWindBarb

(***************************************************************************)
(* Claims about drawWindBarb                                               *)
(***************************************************************************)
\* v is the multiple of 5 nearest to spd, the upper one of two
NearestFive(spd, v) ==
  /\ v % 5 = 0
  /\ Le(Sub(IntNum(v), spd), Num(5, 2))
  /\ Lt(Sub(spd, IntNum(v)), Num(5, 2))

BarbDrawnFor(spd) == bPc = "done" /\ bDir # Null /\ bSpd = spd

\* C13: for every speed >= 2 kt, 50 n50 + 10 n10 + 5 n5 is the speed rounded
\* to the nearest 5 kt, with 0 <= n10 <= 4 and n5 in {0, 1}; 47 kt gives
\* (0, 4, 1) and 53 kt gives (1, 0, 1).
C13_BarbDecomposition ==
  (bPc = "done" /\ bDir # Null /\ bSpd # Null /\ Ge(bSpd, IntNum(2))) =>
    /\ bOut.kind = "barb"
    /\ NearestFive(bSpd, 50 * bOut.n50 + 10 * bOut.n10 + 5 * bOut.n5)
    /\ bOut.n50 >= 0
    /\ bOut.n10 \in 0..4
    /\ bOut.n5 \in {0, 1}
    /\ bSpd = IntNum(47) => <<bOut.n50, bOut.n10, bOut.n5>> = <<0, 4, 1>>
    /\ bSpd = IntNum(53) => <<bOut.n50, bOut.n10, bOut.n5>> = <<1, 0, 1>>

\* the barb for 53 kt was drawn
C13_Witness ==
  /\ BarbDrawnFor(IntNum(53))
  /\ bOut = [kind |-> "barb", n50 |-> 1, n10 |-> 0, n5 |-> 1]

(***************************************************************************)
(* The loops that call map.project for every observation of a batch        *)
(*                                                                         *)
(* map.project throws for a coordinate it cannot convert; ok tells whether *)
(* it answers for the observation.                                         *)
(***************************************************************************)
\* thinByPixelGrid's loop from station k on; st = [seen, out, threw]
RECURSIVE ThinBatchLoop(_, _, _, _)
ThinBatchLoop(st, stations, cell, k) ==
  IF k > Len(stations) THEN st
  ELSE IF ~stations[k].ok THEN [st EXCEPT !.threw = TRUE]
  ELSE LET nx == ThinStep([seen |-> st.seen, out |-> st.out], stations[k], cell)
       IN  ThinBatchLoop([seen |-> nx.seen, out |-> nx.out, threw |-> FALSE],
                         stations, cell, k + 1)

\* thinByPixelGrid: the list returned, or the exception
ThinBatch(stations, cell) ==
  LET st == ThinBatchLoop([seen |-> {}, out |-> <<>>, threw |-> FALSE], stations, cell, 1)
  IN  IF st.threw THEN [out |-> <<>>, threw |-> TRUE]
      ELSE [out |-> st.out, threw |-> FALSE]

\* canvas width and height of the sampled viewport
PlotWidth == 30
PlotHeight == 10

\* "Skip if outside viewport"
OutsideViewport(s) ==
  s.x < -50 \/ s.x > PlotWidth + 50 \/ s.y < -50 \/ s.y > PlotHeight + 50

\* drawStationPlots' loop from station k on: the stations plotted
RECURSIVE PlotLoop(_, _)
PlotLoop(stations, k) ==
  IF k > Len(stations) THEN <<>>
  ELSE IF ~stations[k].ok THEN PlotLoop(stations, k + 1)
  ELSE IF OutsideViewport(stations[k]) THEN PlotLoop(stations, k + 1)
  ELSE <<stations[k]>> \o PlotLoop(stations, k + 1)

PlotBatch(stations) == [out |-> PlotLoop(stations, 1), threw |-> FALSE]

\* drawOne's loop over declutteredObs from station k on; st = [out, threw]
RECURSIVE PtsLoop(_, _, _)
PtsLoop(st, stations, k) ==
  IF k > Len(stations) THEN st
  ELSE IF ~stations[k].ok THEN [st EXCEPT !.threw = TRUE]
  ELSE IF stations[k].val = Null THEN PtsLoop(st, stations, k + 1)
  ELSE PtsLoop([st EXCEPT !.out = Append(@, stations[k])], stations, k + 1)

PtsBatch(stations) ==
  LET st == PtsLoop([out |-> <<>>, threw |-> FALSE], stations, 1)
  IN  IF st.threw THEN [out |-> <<>>, threw |-> TRUE] ELSE st

\* drawWind's loop over declutteredObs: the null test comes first
RECURSIVE WindPtsLoop(_, _, _)
WindPtsLoop(st, stations, k) ==
  IF k > Len(stations) THEN st
  ELSE IF stations[k].val = Null THEN WindPtsLoop(st, stations, k + 1)
  ELSE IF ~stations[k].ok THEN [st EXCEPT !.threw = TRUE]
  ELSE WindPtsLoop([st EXCEPT !.out = Append(@, stations[k])], stations, k + 1)

WindPtsBatch(stations) ==
  LET st == WindPtsLoop([out |-> <<>>, threw |-> FALSE], stations, 1)
  IN  IF st.threw THEN [out |-> <<>>, threw |-> TRUE] ELSE st

\* the loop named by op, run on a batch
RunBatch(op, stations) ==
  CASE op.name = "thin" -> ThinBatch(stations, op.cell)
    [] op.name = "plots" -> PlotBatch(stations)
    [] op.name = "pts" -> PtsBatch(stations)
    [] op.name = "windPts" -> WindPtsBatch(stations)

\* sampled batches: pixel positions in two buckets and outside the viewport,
\* a field value or null
BatchPositions == {<<0, 0>>, <<5, 0>>, <<-60, 0>>}
BatchValues == {Null, IntNum(1)}

Batches(max) ==
  UNION {{[k \in 1..n |-> [id |-> k, ok |-> f[k][1], x |-> f[k][2][1],
                           y |-> f[k][2][2], val |-> f[k][3]]] :
            f \in [1..n -> BOOLEAN \X BatchPositions \X BatchValues]} :
         n \in 0..max}

InitBatch ==
  /\ jObs \in Batches(MaxBatch)
  /\ jOp = [name |-> "none", cell |-> 0]
  /\ jOut = <<>>
  /\ jThrew = FALSE
  /\ jPc = "call"

RunLoop(op) ==
  /\ UNCHANGED notBatch
  /\ jPc = "call"
  /\ jOp' = op
  /\ jOut' = RunBatch(op, jObs).out
  /\ jThrew' = RunBatch(op, jObs).threw
  /\ jPc' = "done"
  /\ UNCHANGED jObs

\* declutteredObs: thinByPixelGrid(obs, map, cell)
Declutter == \E cell \in CellSizes : RunLoop([name |-> "thin", cell |-> cell])

\* drawStationPlots: "Draw each station in declutteredObs"
DrawStations == RunLoop([name |-> "plots", cell |-> 0])

\* drawOne: "Build pts for THIS field"
BuildPts == RunLoop([name |-> "pts", cell |-> 0])

\* drawWind: the loop that builds pts
BuildWindPts == RunLoop([name |-> "windPts", cell |-> 0])

NextBatch == Declutter \/ DrawStations \/ BuildPts \/ BuildWindPts

(***************************************************************************)
(* Claims about a failing projection                                       *)
(***************************************************************************)
Projectable(stations) == SelectSeq(stations, LAMBDA s : s.ok)

\* C14: when map.project throws for an observation, only that observation
\* is skipped: decluttering, station plotting and the building of a field's
\* points give what they give for the batch without it, and are not aborted.
C14_ProjectionFailureSkipsOne ==
  jPc = "done" =>
    /\ ~jThrew
    /\ jOut = RunBatch(jOp, Projectable(jObs)).out

\* station plotting went past an observation that does not project
PlotsSkipFailingProjection ==
  (jPc = "done" /\ jOp.name = "plots") =>
    /\ ~jThrew
    /\ jOut = RunBatch(jOp, Projectable(jObs)).out

(***************************************************************************)
(* One field of drawAnalysisOverlay, from declutteredObs to the canvas     *)
(*                                                                         *)
(* An observation carries the attribute of the field at hand: tempC,       *)
(* dewpointC or pressureMb, or for wind the east component u of a wind     *)
(* blowing along the x axis (v = 0).  The sampled values are whole numbers *)
(* in both units.                                                          *)
(***************************************************************************)
WindStep == 42

\* (c * 9) / 5 + 32
CelsiusToFahrenheit(c) == Add(Div(Mul(c, IntNum(9)), IntNum(5)), IntNum(32))

\* val of a point of the field
FieldVal(mode, unit, v) ==
  IF mode \in {"temp", "dewpoint"} /\ unit = "F" THEN CelsiusToFahrenheit(v).n
  ELSE v.n

\* the loop that builds pts, from observation k on
RECURSIVE OverlayPtsLoop(_, _, _, _)
OverlayPtsLoop(obsList, mode, unit, k) ==
  IF k > Len(obsList) THEN <<>>
  ELSE IF obsList[k].val = Null THEN OverlayPtsLoop(obsList, mode, unit, k + 1)
  ELSE <<[x |-> obsList[k].x, y |-> obsList[k].y,
          val |-> FieldVal(mode, unit, obsList[k].val)]>>
         \o OverlayPtsLoop(obsList, mode, unit, k + 1)

\* the test of pts, asking for two
TooFewPointsTwo(pts) == Len(pts) < 2

\* if (pts.length < 3) return
TooFewPoints(pts) == Len(pts) < 3

OverlayStep(mode) == IF mode = "wind" THEN WindStep ELSE GridStep

\* canvas width and height
OverlayWidth == 30
OverlayHeight == 30

\* sampled observations
OverlayPositions == {<<0, 0>>, <<24, 24>>}
OverlayValues(mode) ==
  {Null} \cup (CASE mode = "slp" -> {IntNum(1000), IntNum(1010)}
                 [] mode = "wind" -> {IntNum(-10), IntNum(10)}
                 [] OTHER -> {IntNum(10), IntNum(15)})

OverlayObsLists(mode) ==
  UNION {{[k \in 1..n |-> [x |-> f[k][1][1], y |-> f[k][1][2], val |-> f[k][2]]] :
            f \in [1..n -> OverlayPositions \X OverlayValues(mode)]} :
         n \in 0..MaxOverlayObs}

InitOverlay ==
  /\ oMode \in {"temp", "dewpoint", "slp", "wind"}
  /\ oUnit \in {"F", "C"}
  /\ oObs \in OverlayObsLists(oMode)
  /\ oPts = <<>>
  /\ oGrid = <<>>
  /\ oNx = 0
  /\ oNy = 0
  /\ oCalls = <<>>
  /\ oDrawn = 0
  /\ oPc = "start"

\* pts is built; the return for fewer than 3 points
OverlayBuildPts ==
  /\ UNCHANGED notOverlay
  /\ oPc = "start"
  /\ oPts' = OverlayPtsLoop(oObs, oMode, oUnit, 1)
  /\ oPc' = IF TooFewPoints(oPts') THEN "skipped" ELSE "grid"
  /\ UNCHANGED <<oObs, oMode, oUnit, oGrid, oNx, oNy, oCalls, oDrawn>>

\* nx, ny and the grid, node by node
OverlayBuildGrid ==
  /\ UNCHANGED notOverlay
  /\ oPc = "grid"
  /\ oNx' = (OverlayWidth \div OverlayStep(oMode)) + 1
  /\ oNy' = (OverlayHeight \div OverlayStep(oMode)) + 1
  /\ oGrid' = [k \in 0..(oNx' * oNy' - 1) |->
                 NodeValue(oPts, (k % oNx') * OverlayStep(oMode),
                                 (k \div oNx') * OverlayStep(oMode))]
  /\ oPc' = "draw"
  /\ UNCHANGED <<oObs, oMode, oUnit, oPts, oCalls, oDrawn>>

\* the strokes of the calls of contoursForLevel for the levels from k on
RECURSIVE StrokeCount(_, _, _, _, _)
StrokeCount(g, nx, ny, levels, k) ==
  IF k > Len(levels) THEN 0
  ELSE (IF Len(ContoursForLevel(g, nx, ny, GridStep, IntNum(levels[k]))) = 0 THEN 0 ELSE 1)
       + StrokeCount(g, nx, ny, levels, k + 1)

\* the wind symbols: one at every node with a finite value and a speed >= 2
WindSymbols(g, len) ==
  Cardinality({k \in 0..(len - 1) :
                 IsFinite(g[k]) /\ (Ge(g[k], IntNum(2)) \/ Le(g[k], IntNum(-2)))})

\* min/max, levels, the draw loop and the freezing line; for wind, the
\* symbols at the grid nodes
OverlayDraw ==
  /\ UNCHANGED notOverlay
  /\ oPc = "draw"
  /\ IF oMode = "wind"
     THEN /\ oDrawn' = WindSymbols(oGrid, oNx * oNy)
          /\ UNCHANGED oCalls
     ELSE LET mm == MinMax(oGrid, oNx * oNy)
              levels == BuildLevelList(oMode, oUnit, mm.min, mm.max)
              calls == levels \o FreezePass(oMode, oUnit, levels)
          IN  IF ~IsFinite(mm.min) \/ ~IsFinite(mm.max)
              THEN UNCHANGED <<oCalls, oDrawn>>
              ELSE /\ oCalls' = calls
                   /\ oDrawn' = StrokeCount(oGrid, oNx, oNy, calls, 1)
  /\ oPc' = "done"
  /\ UNCHANGED <<oObs, oMode, oUnit, oPts, oGrid, oNx, oNy>>

NextOverlay == OverlayBuildPts \/ OverlayBuildGrid \/ OverlayDraw

(***************************************************************************)
(* Claims about a field with too few observations                          *)
(***************************************************************************)
\* the observations that carry the field's attribute
WithValue(obsList) == {k \in 1..Len(obsList) : obsList[k].val # Null}

\* C15: a field for which fewer than 3 decluttered observations carry a
\* non-null value is skipped: no grid is built, contoursForLevel is not
\* called for it and nothing is drawn for it.
C15_SparseFieldSkipped ==
  (oPc # "start" /\ Cardinality(WithValue(oObs)) < 3) =>
    /\ oPc = "skipped"
    /\ oGrid = <<>>
    /\ oCalls = <<>>
    /\ oDrawn = 0

\* a field of three observations, one of them without the attribute, was
\* skipped
C15_Witness ==
  /\ oPc = "skipped"
  /\ Len(oObs) >= 3
  /\ Cardinality(WithValue(oObs)) = 2

\* some field was drawn
OverlayDrewSomething == oPc = "done" /\ oDrawn > 0 /\ Len(oCalls) > 0

(***************************************************************************)
(* declutteredObs: bucket size from zoom and density, then thinByPixelGrid *)
(***************************************************************************)
\* densityMultiplier
DensityMultiplier(densityMode) ==
  CASE densityMode = "dense" -> Num(1, 4)
    [] densityMode = "sparse" -> IntNum(4)
    [] OTHER -> IntNum(2)

\* baseCell, with the zoom bands closed on the right
BaseCellClosedBands(z) ==
  IF Le(z, IntNum(4)) THEN 30
  ELSE IF Le(z, IntNum(6)) THEN 22
  ELSE IF Le(z, IntNum(8)) THEN 15
  ELSE IF Le(z, IntNum(10)) THEN 10
  ELSE 0

\* baseCell
BaseCell(z) ==
  IF Lt(z, IntNum(4)) THEN 30
  ELSE IF Lt(z, IntNum(6)) THEN 22
  ELSE IF Lt(z, IntNum(8)) THEN 15
  ELSE IF Lt(z, IntNum(10)) THEN 10
  ELSE 0

\* Math.max(6, Math.round(baseCell * densityMultiplier))
CellSize(baseCell, multiplier) ==
  Max(6, Round(Mul(IntNum(baseCell), multiplier)))

\* the memo's value: [cell, out]
DeclutteredObs(obsList, mapReady, zoom, densityMode) ==
  IF ~mapReady THEN [cell |-> 0, out |-> obsList]
  ELSE IF BaseCell(zoom) = 0 THEN [cell |-> 0, out |-> obsList]
  ELSE LET cell == CellSize(BaseCell(zoom), DensityMultiplier(densityMode))
       IN  [cell |-> cell, out |-> ThinByPixelGrid(obsList, cell)]

\* sampled inputs: every half zoom level, stations 7 px apart
Zooms == {Num(k, 2) : k \in 0..(2 * MaxZoom)}
DensityModes == {"dense", "medium", "sparse"}
DeclutterPixels == {<<0, 0>>, <<7, 0>>}

DeclutterLists(max) ==
  UNION {{[k \in 1..n |-> [id |-> k, x |-> f[k][1], y |-> f[k][2]]] :
            f \in [1..n -> DeclutterPixels]} : n \in 0..max}

InitDeclutter ==
  /\ zObs \in DeclutterLists(MaxStations)
  /\ zZoom \in Zooms
  /\ zDensity \in DensityModes
  /\ zMapReady \in BOOLEAN
  /\ zCell = 0
  /\ zOut = <<>>
  /\ zPc = "call"

\* the memo is computed
ComputeDecluttered ==
  /\ UNCHANGED notDeclutter
  /\ zPc = "call"
  /\ LET r == DeclutteredObs(zObs, zMapReady, zZoom, zDensity)
     IN  zCell' = r.cell /\ zOut' = r.out
  /\ zPc' = "done"
  /\ UNCHANGED <<zObs, zZoom, zDensity, zMapReady>>

NextDeclutter == ComputeDecluttered

(***************************************************************************)
(* Claims about the bucket size                                            *)
(***************************************************************************)
\* the zoom-band base times the density multiplier
BandProduct(zoom, densityMode) ==
  Mul(IntNum(CASE Lt(zoom, IntNum(4)) -> 30
               [] Ge(zoom, IntNum(4)) /\ Lt(zoom, IntNum(6)) -> 22
               [] Ge(zoom, IntNum(6)) /\ Lt(zoom, IntNum(8)) -> 15
               [] Ge(zoom, IntNum(8)) /\ Lt(zoom, IntNum(10)) -> 10),
      CASE densityMode = "dense" -> Num(1, 4)
        [] densityMode = "medium" -> IntNum(2)
        [] densityMode = "sparse" -> IntNum(4))

Unthinned == ~zMapReady \/ Ge(zZoom, IntNum(10))

\* C16 as stated: the bucket size is the zoom-band base times the density
\* multiplier, never below 6; for zoom >= 10 or without a map the
\* decluttered set is the observation list unchanged.
C16_BucketSizeIsProduct ==
  zPc = "done" =>
    IF Unthinned THEN zCell = 0 /\ zOut = zObs
    ELSE /\ IntNum(zCell) = (IF Lt(BandProduct(zZoom, zDensity), IntNum(6))
                             THEN IntNum(6) ELSE BandProduct(zZoom, zDensity))
         /\ zOut = ThinByPixelGrid(zObs, zCell)

\* C16, amended: the bucket size is the zoom-band base times the density
\* multiplier, rounded to the nearest whole pixel (halves upward), never
\* below 6; for zoom >= 10 or without a map the decluttered set is the
\* observation list unchanged.
C16_BucketSizeIsRoundedProduct ==
  zPc = "done" =>
    IF Unthinned THEN zCell = 0 /\ zOut = zObs
    ELSE LET p == BandProduct(zZoom, zDensity)
             r == IF Lt(p, IntNum(6)) THEN IntNum(6) ELSE p
         IN  /\ Le(Sub(r, Num(1, 2)), IntNum(zCell))
             /\ Le(IntNum(zCell), Add(r, Num(1, 2)))
             /\ Sub(IntNum(zCell), r) # Num(-1, 2)
             /\ zOut = ThinByPixelGrid(zObs, zCell)

\* dense mode below zoom 4: the product 7.5 became a bucket of 8 px, which
\* put two stations 7 px apart into one bucket
C16_Witness ==
  /\ zPc = "done"
  /\ zMapReady
  /\ zDensity = "dense"
  /\ Lt(zZoom, IntNum(4))
  /\ zCell = 8
  /\ Len(zOut) < Len(zObs)

(***************************************************************************)
(* The neighbor search of drawOne and drawWind, one point per step         *)
(***************************************************************************)
\* sampled points: three distances within the search radius of the node at
\* the origin (two of them equal as seen from the node at x = 24), and one
\* beyond it; the value tells the positions apart
ScanPositions == {<<0, 0>>, <<24, 0>>, <<48, 0>>, <<240, 0>>}
ScanVal(pos) == pos[1] \div 24 + 1
ScanNodes == {<<0, 0>>, <<24, 0>>}

InitScan ==
  /\ \E node \in ScanNodes : nGx = node[1] /\ nGy = node[2]
  /\ nNeighbors = <<>>
  /\ nSeen = [p \in ScanPositions |-> 0]
  /\ nCount = 0

\* one iteration of "for (const p of pts)"
ScanPoint(pos) ==
  /\ UNCHANGED notScan
  /\ nCount < MaxScan
  /\ nNeighbors' =
       NeighborLoop(nNeighbors,
                    <<[x |-> pos[1], y |-> pos[2], val |-> ScanVal(pos)]>>,
                    nGx, nGy, 1)
  /\ nSeen' = [nSeen EXCEPT ![pos] = @ + 1]
  /\ nCount' = nCount + 1
  /\ UNCHANGED <<nGx, nGy>>

\* the node loops go on to another node: const neighbors = []
ScanNextNode(node) ==
  /\ UNCHANGED notScan
  /\ nCount > 0
  /\ nGx' = node[1]
  /\ nGy' = node[2]
  /\ nNeighbors' = <<>>
  /\ nSeen' = [p \in ScanPositions |-> 0]
  /\ nCount' = 0

NextScan ==
  \/ \E pos \in ScanPositions : ScanPoint(pos)
  \/ \E node \in ScanNodes : ScanNextNode(node)

(***************************************************************************)
(* Claims about the neighbor search                                        *)
(***************************************************************************)
\* squared distance of a sampled position from the node
ScanD2(pos) ==
  (pos[1] - nGx) * (pos[1] - nGx) + (pos[2] - nGy) * (pos[2] - nGy)

ScanInRadius == {pos \in ScanPositions : ScanD2(pos) <= 200 * 200}

\* m: the points scanned so far that lie within the search radius
ScanM == Cardinality({<<pos, c>> \in ScanInRadius \X (1..MaxScan) : c <= nSeen[pos]})

\* the scanned points within the radius that are nearer than d2, and those
\* not farther than d2
NearerThan(d2) ==
  Cardinality({<<pos, c>> \in ScanInRadius \X (1..MaxScan) :
                 c <= nSeen[pos] /\ ScanD2(pos) < d2})
NotFartherThan(d2) ==
  Cardinality({<<pos, c>> \in ScanInRadius \X (1..MaxScan) :
                 c <= nSeen[pos] /\ ScanD2(pos) <= d2})

\* C17: at the end of every scan step the candidate list holds the
\* min(k, m) nearest of the m points within the search radius scanned so
\* far (k = 10), in non-decreasing distance order, and never more than k.
C17_NearestKept ==
  /\ Len(nNeighbors) <= 10
  /\ Len(nNeighbors) = Min(10, ScanM)
  /\ \A i \in 1..Len(nNeighbors) : \A j \in 1..Len(nNeighbors) :
       i < j => nNeighbors[i].d2 <= nNeighbors[j].d2
  \* every candidate is a scanned point within the radius, none counted twice
  /\ \A pos \in ScanPositions :
       Cardinality({i \in 1..Len(nNeighbors) :
                      nNeighbors[i] = [d2 |-> ScanD2(pos), val |-> ScanVal(pos)]})
         <= (IF pos \in ScanInRadius THEN nSeen[pos] ELSE 0)
  /\ \A i \in 1..Len(nNeighbors) :
       \E pos \in ScanInRadius :
         nNeighbors[i] = [d2 |-> ScanD2(pos), val |-> ScanVal(pos)]
  \* the i-th candidate is the i-th nearest
  /\ \A i \in 1..Len(nNeighbors) :
       /\ NearerThan(nNeighbors[i].d2) < i
       /\ NotFartherThan(nNeighbors[i].d2) >= i

\* more than k points within the radius were scanned, and a far one had to
\* leave the list
C17_Witness ==
  /\ ScanM > 10
  /\ Len(nNeighbors) = 10
  /\ \E pos \in ScanInRadius :
       /\ nSeen[pos] > 0
       /\ \A i \in 1..Len(nNeighbors) : nNeighbors[i].d2 < ScanD2(pos)
  /\ nSeen[<<240, 0>>] > 0

(***************************************************************************)
(* The inverse-distance weights of one node                                *)
(***************************************************************************)
\* sampled positions around the node at the origin: on it, closer than
\* 3 px, at 3 px, farther, and beyond the search radius
WeightPositions == {<<0, 0>>, <<2, 0>>, <<3, 0>>, <<0, 6>>, <<240, 0>>}

\* a canvas narrower than the grid spacing: the only node is the origin
InitWeights ==
  /\ \E n \in 0..MaxPts : \E f \in [1..n -> WeightPositions \X PtValues] :
       fPts = [k \in 1..n |-> [x |-> f[k][1][1], y |-> f[k][1][2], val |-> f[k][2]]]
  /\ fWidth = 10
  /\ fHeight = 10
  /\ fNx = 0
  /\ fNy = 0
  /\ fGrid = <<>>
  /\ fK = 0
  /\ fPc = "start"

\* squared distance of point k from the origin
OriginD2(k) == fPts[k].x * fPts[k].x + fPts[k].y * fPts[k].y

\* the points within the search radius of the origin: at most k = 10 of
\* them, so all are retained
Retained == {k \in 1..Len(fPts) : OriginD2(k) <= 200 * 200}

\* max(d^2, 9)
Capped(k) == IF OriginD2(k) < 9 THEN 9 ELSE OriginD2(k)

\* a common multiple of the capped squared distances of the points in S
RECURSIVE CommonMultiple(_)
CommonMultiple(S) ==
  IF S = {} THEN 1
  ELSE LET k == CHOOSE k \in S : TRUE
           m == CommonMultiple(S \ {k})
       IN  (m * Capped(k)) \div Gcd(m, Capped(k))

\* the sums of w and of w * val over the points in S, with w = 1 / max(d^2, 9),
\* both multiplied by m
RECURSIVE ScaledW(_, _)
ScaledW(S, m) ==
  IF S = {} THEN 0
  ELSE LET k == CHOOSE k \in S : TRUE
       IN  m \div Capped(k) + ScaledW(S \ {k}, m)

RECURSIVE ScaledWV(_, _)
ScaledWV(S, m) ==
  IF S = {} THEN 0
  ELSE LET k == CHOOSE k \in S : TRUE
       IN  (m \div Capped(k)) * fPts[k].val + ScaledWV(S \ {k}, m)

MaxLabels == 5
MinLen == 30

\* Math.hypot(b.x - a.x, b.y - a.y), squared
Hypot2(a, b) == (b.x - a.x) * (b.x - a.x) + (b.y - a.y) * (b.y - a.y)

\* the candidate loop, from segment k on
RECURSIVE CandidateLoop(_, _)
CandidateLoop(segments, k) ==
  IF k > Len(segments) THEN <<>>
  ELSE LET seg == segments[k]
       IN  IF Len(seg) < 2 THEN CandidateLoop(segments, k + 1)
           ELSE LET a == seg[1]
                    b == seg[Len(seg)]
                    len2 == Hypot2(a, b)
                IN  IF len2 >= MinLen * MinLen
                    THEN <<[a |-> a, b |-> b, len2 |-> len2]>>
                           \o CandidateLoop(segments, k + 1)
                    ELSE CandidateLoop(segments, k + 1)

\* the place of c in a list sorted by descending length: behind its equals
RECURSIVE SortPos(_, _, _)
SortPos(sorted, c, k) ==
  IF k > Len(sorted) THEN k
  ELSE IF c.len2 > sorted[k].len2 THEN k
  ELSE SortPos(sorted, c, k + 1)

\* candidates.sort((a, b) => b.len - a.len): a stable sort, longest first
RECURSIVE SortByLenLoop(_, _, _)
SortByLenLoop(sorted, cands, k) ==
  IF k > Len(cands) THEN sorted
  ELSE LET p == SortPos(sorted, cands[k], 1)
       IN  SortByLenLoop(SubSeq(sorted, 1, p - 1) \o <<cands[k]>>
                           \o SubSeq(sorted, p, Len(sorted)),
                         cands, k + 1)

\* the candidates left in input order
SortByLenKeepsOrder(cands) == cands

SortByLen(cands) == SortByLenLoop(<<>>, cands, 1)

\* Math.atan2(dy, dx) > Math.PI / 2
AboveHalfPi(dx, dy) == dx < 0 /\ dy >= 0

\* Math.atan2(dy, dx) < -Math.PI / 2
BelowMinusHalfPi(dx, dy) == dx < 0 /\ dy < 0

\* the normalization with only its first branch
LabelAngleUpperFoldOnly(dx, dy) ==
  IF dx < 0 /\ dy >= 0 THEN [dx |-> -dx, dy |-> -dy]
  ELSE [dx |-> dx, dy |-> dy]

\* let angle = Math.atan2(dy, dx); if (angle > Math.PI / 2) angle -= Math.PI;
\* else if (angle < -Math.PI / 2) angle += Math.PI
LabelAngle(dx, dy) ==
  IF AboveHalfPi(dx, dy) THEN [dx |-> -dx, dy |-> -dy]
  ELSE IF BelowMinusHalfPi(dx, dy) THEN [dx |-> -dx, dy |-> -dy]
  ELSE [dx |-> dx, dy |-> dy]

\* sampled chords: shorter than 30 px; 30 px long, pointing up and left;
\* 30 px straight up; longer, pointing down and left
LabelChords ==
  {<<[x |-> 0, y |-> 0], [x |-> 10, y |-> 0]>>,
   <<[x |-> 18, y |-> 24], [x |-> 0, y |-> 0]>>,
   <<[x |-> 0, y |-> 30], [x |-> 0, y |-> 0]>>,
   <<[x |-> 24, y |-> 0], [x |-> 0, y |-> 20]>>}

InitLabel ==
  /\ \E n \in 0..MaxSegs : lSegs \in [1..n -> LabelChords]
  /\ lCands = <<>>
  /\ lLabels = <<>>
  /\ lK = 0
  /\ lPc = "call"

\* the candidates, the return without one, the sort
BuildCandidates ==
  /\ UNCHANGED notLabel
  /\ lPc = "call"
  /\ LET candidates == CandidateLoop(lSegs, 1)
     IN  IF Len(candidates) = 0
         THEN /\ lCands' = candidates
              /\ lPc' = "done"
         ELSE /\ lCands' = SortByLen(candidates)
              /\ lPc' = "label"
  /\ UNCHANGED <<lSegs, lLabels, lK>>

\* one iteration of the label loop
DrawLabel ==
  /\ UNCHANGED notLabel
  /\ lPc = "label"
  /\ lK < Len(lCands) /\ lK < MaxLabels
  /\ LET a == lCands[lK + 1].a
         b == lCands[lK + 1].b
         dx == b.x - a.x
         dy == b.y - a.y
     IN  lLabels' = Append(lLabels, [a |-> a, b |-> b, angle |-> LabelAngle(dx, dy)])
  /\ lK' = lK + 1
  /\ UNCHANGED <<lSegs, lCands, lPc>>

\* the loop ends
LabelsDone ==
  /\ UNCHANGED notLabel
  /\ lPc = "label"
  /\ ~(lK < Len(lCands) /\ lK < MaxLabels)
  /\ lPc' = "done"
  /\ UNCHANGED <<lSegs, lCands, lLabels, lK>>

NextLabel == BuildCandidates \/ DrawLabel \/ LabelsDone

(***************************************************************************)
(* Claims about labelContours                                              *)
(***************************************************************************)
\* the squared endpoint-to-endpoint length of a chord
ChordLen2(c) ==
  (c[2].x - c[1].x) * (c[2].x - c[1].x) + (c[2].y - c[1].y) * (c[2].y - c[1].y)

\* how often chord c is in the input, and how often it is labelled
InputCount(c) == Cardinality({k \in 1..Len(lSegs) : lSegs[k] = c})
LabelledCount(c) ==
  Cardinality({k \in 1..Len(lLabels) : <<lLabels[k].a, lLabels[k].b>> = c})

\* C21: at most 5 labels are drawn, only on segments of length >= 30 px of
\* the list; once the call is over no unlabelled segment of length >= 30 is
\* longer than a labelled one; with no such segment nothing is drawn.
C21_LongestLabelled ==
  /\ Len(lLabels) <= 5
  /\ \A c \in LabelChords :
       /\ LabelledCount(c) <= InputCount(c)
       /\ LabelledCount(c) > 0 => ChordLen2(c) >= 30 * 30
  /\ \A k \in 1..Len(lLabels) : <<lLabels[k].a, lLabels[k].b>> \in LabelChords
  /\ lPc = "done" =>
       \A c \in LabelChords : \A d \in LabelChords :
         (/\ ChordLen2(c) >= 30 * 30
          /\ LabelledCount(c) < InputCount(c)
          /\ LabelledCount(d) > 0) => ChordLen2(c) <= ChordLen2(d)
  /\ (\A k \in 1..Len(lSegs) : ChordLen2(lSegs[k]) < 30 * 30) => lLabels = <<>>

\* six segments of length >= 30, the shortest ones last but one: five labels
\* were drawn, a shortest one was left out and a too short one was ignored
C21_Witness ==
  /\ lPc = "done"
  /\ Len(lLabels) = 5
  /\ Cardinality({k \in 1..Len(lSegs) : ChordLen2(lSegs[k]) >= 30 * 30}) > 5
  /\ \E k \in 1..Len(lSegs) : ChordLen2(lSegs[k]) < 30 * 30
  /\ ChordLen2(lSegs[1]) = 30 * 30
  /\ LabelledCount(lSegs[1]) < InputCount(lSegs[1])
  /\ \E k \in 1..Len(lSegs) : ChordLen2(lSegs[k]) > 30 * 30

\* the angle is that of the chord or of the chord turned round
AlongChord(l) ==
  \/ l.angle = [dx |-> l.b.x - l.a.x, dy |-> l.b.y - l.a.y]
  \/ l.angle = [dx |-> l.a.x - l.b.x, dy |-> l.a.y - l.b.y]

ISqrt(n) == CHOOSE k \in 0..n : k * k = n

\* Math.sqrt, of the square of a rational
Sqrt(q) == [fin |-> TRUE, n |-> ISqrt(q.n), d |-> ISqrt(q.d)]

\* uvToDirSpd
UvToDirSpd(u, v) ==
  LET spd == Sqrt(Add(Mul(u, u), Mul(v, v)))
  IN  IF Lt(spd, Num(1, 1000000)) THEN [dir |-> [from |-> <<0, 0>>], spd |-> IntNum(0)]
      ELSE [dir |-> [from |-> <<Neg(u), Neg(v)>>], spd |-> spd]

\* the near-calm test, at or below 2
NearCalmOrTwo(spd) == Le(spd, IntNum(2))

\* if (spd < 2) continue
NearCalm(spd) == Lt(spd, IntNum(2))

\* what the loop body draws at a node: nothing, or the symbol of the mode
WindGlyph(u, v, mode) ==
  IF ~IsFinite(u) \/ ~IsFinite(v) THEN "none"
  ELSE LET ds == UvToDirSpd(u, v)
       IN  IF NearCalm(ds.spd) THEN "none"
           ELSE IF mode = "barbs" THEN DrawWindBarb(ds.dir, ds.spd).kind
           ELSE "arrow"

\* sampled node values: no data; still air; 1.5 kt; 2 kt exactly; 5 kt
WindSamples ==
  {<<NaN, NaN>>, <<IntNum(0), IntNum(0)>>, <<IntNum(0), Num(3, 2)>>,
   <<Num(6, 5), Num(-8, 5)>>, <<IntNum(-3), IntNum(4)>>}

InitWind ==
  /\ wNx = WindCols
  /\ wNy = 2
  /\ \E f \in [0..(wNx * wNy - 1) -> WindSamples] :
       /\ wGridU = [k \in 0..(wNx * wNy - 1) |-> f[k][1]]
       /\ wGridV = [k \in 0..(wNx * wNy - 1) |-> f[k][2]]
  /\ wMode \in {"barbs", "vectors"}
  /\ wK = 0
  /\ wGlyphs = [k \in 0..(wNx * wNy - 1) |-> "none"]
  /\ wPc = "draw"

\* one iteration of the node loops of "Draw barbs at each valid grid point"
DrawWindNode ==
  /\ UNCHANGED notWind
  /\ wPc = "draw"
  /\ wK < wNx * wNy
  /\ wGlyphs' = [wGlyphs EXCEPT ![wK] = WindGlyph(wGridU[wK], wGridV[wK], wMode)]
  /\ wK' = wK + 1
  /\ UNCHANGED <<wGridU, wGridV, wNx, wNy, wMode, wPc>>

\* the loops end
WindDone ==
  /\ UNCHANGED notWind
  /\ wPc = "draw"
  /\ wK >= wNx * wNy
  /\ wPc' = "done"
  /\ UNCHANGED <<wGridU, wGridV, wNx, wNy, wMode, wK, wGlyphs>>

NextWind == DrawWindNode \/ WindDone

(***************************************************************************)
(* Claims about the wind symbols                                           *)
(***************************************************************************)
\* u and v hold data and the speed is at least 2 kt: u^2 + v^2 >= 4
Blowing(k) ==
  /\ IsFinite(wGridU[k]) /\ IsFinite(wGridV[k])
  /\ wGridU[k].n * wGridU[k].n * wGridV[k].d * wGridV[k].d
       + wGridV[k].n * wGridV[k].n * wGridU[k].d * wGridU[k].d
     >= 4 * wGridU[k].d * wGridU[k].d * wGridV[k].d * wGridV[k].d

\* C23: no symbol of any kind is drawn at a node whose speed is below 2 kt
\* or whose u or v is no-data; once the loops are over, every other node has
\* the symbol of the render mode.
C23_GlyphIffBlowing ==
  \A k \in 0..(wNx * wNy - 1) :
    /\ ~Blowing(k) => wGlyphs[k] = "none"
    /\ wGlyphs[k] # "calm"
    /\ (wPc = "done" /\ Blowing(k)) =>
         wGlyphs[k] = (IF wMode = "barbs" THEN "barb" ELSE "arrow")

\* a grid with a no-data node, a node of 1.5 kt, one of 2 kt exactly and one
\* of 5 kt, drawn with barbs
C23_Witness ==
  /\ wPc = "done"
  /\ wMode = "barbs"
  /\ \E k \in 0..(wNx * wNy - 1) : ~IsFinite(wGridU[k])
  /\ \E k \in 0..(wNx * wNy - 1) : wGridV[k] = Num(3, 2) /\ wGlyphs[k] = "none"
  /\ \E k \in 0..(wNx * wNy - 1) : wGridU[k] = Num(6, 5) /\ wGlyphs[k] = "barb"
  /\ \E k \in 0..(wNx * wNy - 1) : wGridU[k] = IntNum(-3) /\ wGlyphs[k] = "barb"

(***************************************************************************)
(* The grid build with the store into the Float32Array                     *)
(*                                                                         *)
(* The values of the points are numbers such as 71.6 (22 C in F) that no   *)
(* 32-bit float equals.  The sums and the quotient are exact; the store    *)
(* rounds to the nearest 32-bit float.                                     *)
(***************************************************************************)
\* the e with 2^e <= a < 2^(e+1), for a > 0 in the range of the samples
Binade(a) == CHOOSE e \in 0..22 : 2 ^ e <= Floor(a) /\ Floor(a) < 2 ^ (e + 1)

\* the nearest integer, halves to the even one
RoundHalfEven(a) ==
  LET f == Floor(a)
      r == Sub(a, IntNum(f))
  IN  IF Lt(r, Num(1, 2)) THEN f
      ELSE IF Gt(r, Num(1, 2)) THEN f + 1
      ELSE IF f % 2 = 0 THEN f ELSE f + 1

\* the 32-bit float next above
FroundUpward(a) ==
  IF ~a.fin \/ a.n = 0 THEN a
  ELSE LET mag == IF a.n < 0 THEN Neg(a) ELSE a
           scale == 2 ^ (23 - Binade(mag))
           m == Ceil(Mul(mag, IntNum(scale))) + 1
       IN  IF a.n < 0 THEN Num(-m, scale) ELSE Num(m, scale)

\* the store into a Float32Array element: the nearest number with a 24-bit
\* significand
Fround(a) ==
  IF ~a.fin \/ a.n = 0 THEN a
  ELSE LET mag == IF a.n < 0 THEN Neg(a) ELSE a
           scale == 2 ^ (23 - Binade(mag))
           m == RoundHalfEven(Mul(mag, IntNum(scale)))
       IN  IF a.n < 0 THEN Num(-m, scale) ELSE Num(m, scale)

\* gridVals[j * nx + i] = vSum / wSum, read back
StoredNodeValue(pts, gx, gy) == Fround(NodeMean(NeighborLoop(<<>>, pts, gx, gy, 1)))

\* sampled points: on the node at the origin, 6 px away, beyond the search
\* radius; 70 F, 71.6 F (22 C) and 73.4 F (23 C)
StorePositions == {<<0, 0>>, <<0, 6>>, <<240, 0>>}
StoreValues == {IntNum(70), Num(358, 5), Num(367, 5)}

\* a canvas narrower than the grid spacing: the only node is the origin
InitStore ==
  /\ \E n \in 0..MaxPts : \E f \in [1..n -> StorePositions \X StoreValues] :
       fPts = [k \in 1..n |-> [x |-> f[k][1][1], y |-> f[k][1][2], val |-> f[k][2]]]
  /\ fWidth = 10
  /\ fHeight = 10
  /\ fNx = 0
  /\ fNy = 0
  /\ fGrid = <<>>
  /\ fK = 0
  /\ fPc = "start"

\* one iteration of the node loops, at node fK = j * nx + i, with the store
BuildStoredNode ==
  /\ UNCHANGED notField
  /\ fPc = "build"
  /\ fK < fNx * fNy
  /\ LET i == fK % fNx
         j == fK \div fNx
         v == StoredNodeValue(fPts, i * GridStep, j * GridStep)
     IN  fGrid' = IF IsFinite(v) THEN [fGrid EXCEPT ![idx(fNx, i, j)] = v] ELSE fGrid
  /\ fK' = fK + 1
  /\ fPc' = IF fK + 1 = fNx * fNy THEN "done" ELSE "build"
  /\ UNCHANGED <<fPts, fWidth, fHeight, fNx, fNy>>

NextStore == StartField \/ BuildStoredNode

(***************************************************************************)
(* Claims about the stored node values                                     *)
(***************************************************************************)
\* a <= b and a < b, by the sign of the difference
AtMost(a, b) == a.fin /\ b.fin /\ Sub(a, b).n <= 0
Below(a, b) == a.fin /\ b.fin /\ Sub(a, b).n < 0

\* the values of the points in S: the least and the greatest
LeastVal(S) ==
  CHOOSE v \in {fPts[k].val : k \in S} : \A k \in S : AtMost(v, fPts[k].val)
GreatestVal(S) ==
  CHOOSE v \in {fPts[k].val : k \in S} : \A k \in S : AtMost(fPts[k].val, v)

\* C26 as stated: a finite node value lies between the least and the
\* greatest value of the candidates retained for the node, and so between
\* the least and the greatest value of the field's points.
C26_NodeWithinCandidates ==
  (fPc = "done" /\ IsFinite(fGrid[0])) =>
    /\ AtMost(LeastVal(Retained), fGrid[0])
    /\ AtMost(fGrid[0], GreatestVal(Retained))
    /\ AtMost(LeastVal(1..Len(fPts)), fGrid[0])
    /\ AtMost(fGrid[0], GreatestVal(1..Len(fPts)))

\* C26, amended: a finite node value is a 32-bit float that lies between
\* the 32-bit roundings of the least and the greatest value of the
\* candidates retained for the node, and so within half a 32-bit unit in
\* the last place of the range of the field's points.
C26_NodeWithinRoundedCandidates ==
  (fPc = "done" /\ IsFinite(fGrid[0])) =>
    /\ Fround(fGrid[0]) = fGrid[0]
    /\ AtMost(Fround(LeastVal(Retained)), fGrid[0])
    /\ AtMost(fGrid[0], Fround(GreatestVal(Retained)))
    /\ AtMost(Fround(LeastVal(1..Len(fPts))), fGrid[0])
    /\ AtMost(fGrid[0], Fround(GreatestVal(1..Len(fPts))))

\* three candidates of 71.6 F each left a node value below 71.6, and an
\* unlike candidate set left one strictly inside its range
C26_Witness ==
  /\ fPc = "done"
  /\ IsFinite(fGrid[0])
  /\ Cardinality(Retained) = 3
  /\ \A k \in Retained : fPts[k].val = Num(358, 5)
  /\ Below(fGrid[0], Num(358, 5))

\* candidates of different values left a value strictly inside their range
StoredStrictlyInside ==
  /\ fPc = "done"
  /\ IsFinite(fGrid[0])
  /\ Below(LeastVal(Retained), fGrid[0])
  /\ Below(fGrid[0], GreatestVal(Retained))

(***************************************************************************)
(* Specifications                                                          *)
(***************************************************************************)
IdleFetch == InitFetch

IdleRedraw == InitRedraw /\ showStations = TRUE /\ displayMode = "plots"

IdleContour ==
  /\ cNx = 2
  /\ cNy = 2
  /\ cGrid = [k \in 0..3 |-> NaN]
  /\ cStep = GridStep
  /\ cLevel = IntNum(0)
  /\ cLines = <<>>
  /\ cPc = "done"

IdleThin ==
  /\ tStations = <<>>
  /\ tInput = <<>>
  /\ tCell = 6
  /\ tOut = <<>>
  /\ tPc = "done"

IdleLevels ==
  /\ dMode = "temp"
  /\ dUnit = "F"
  /\ dNx = 2
  /\ dNy = 2
  /\ dGrid = [k \in 0..3 |-> NaN]
  /\ dMinV = PosInf
  /\ dMaxV = NegInf
  /\ dLevels = <<>>
  /\ dK = 0
  /\ dCalls = <<>>
  /\ dDrawn = <<>>
  /\ dPc = "skipped"

IdleField ==
  /\ fPts = <<>>
  /\ fWidth = 0
  /\ fHeight = 0
  /\ fNx = 0
  /\ fNy = 0
  /\ fGrid = <<>>
  /\ fK = 0
  /\ fPc = "skipped"

IdleBarb ==
  /\ bDir = Null
  /\ bSpd = Null
  /\ bOut = [kind |-> "none", n50 |-> 0, n10 |-> 0, n5 |-> 0]
  /\ bPc = "done"

IdleBatch ==
  /\ jObs = <<>>
  /\ jOp = [name |-> "none", cell |-> 0]
  /\ jOut = <<>>
  /\ jThrew = FALSE
  /\ jPc = "done"

IdleOverlay ==
  /\ oObs = <<>>
  /\ oMode = "temp"
  /\ oUnit = "F"
  /\ oPts = <<>>
  /\ oGrid = <<>>
  /\ oNx = 0
  /\ oNy = 0
  /\ oCalls = <<>>
  /\ oDrawn = 0
  /\ oPc = "skipped"

IdleDeclutter ==
  /\ zObs = <<>>
  /\ zZoom = IntNum(0)
  /\ zDensity = "medium"
  /\ zMapReady = FALSE
  /\ zCell = 0
  /\ zOut = <<>>
  /\ zPc = "done"

IdleScan ==
  /\ nGx = 0
  /\ nGy = 0
  /\ nNeighbors = <<>>
  /\ nSeen = [p \in {} |-> 0]
  /\ nCount = 0

IdleLabel ==
  /\ lSegs = <<>>
  /\ lCands = <<>>
  /\ lLabels = <<>>
  /\ lK = 0
  /\ lPc = "done"

IdleWind ==
  /\ wGridU = <<>>
  /\ wGridV = <<>>
  /\ wNx = 0
  /\ wNy = 0
  /\ wMode = "barbs"
  /\ wK = 0
  /\ wGlyphs = <<>>
  /\ wPc = "done"

Init == InitFetch /\ IdleRedraw /\ IdleContour /\ IdleThin /\ IdleLevels /\ IdleField
  /\ IdleBarb /\ IdleBatch /\ IdleOverlay /\ IdleDeclutter /\ IdleScan
  /\ IdleLabel /\ IdleWind

Spec == Init /\ [][Next]_vars

\* a session of the history panel: the steps of Next without the return to
\* live mode and the live interval (the answer to the request made on mount
\* can still arrive)
NextHistory ==
  \/ SetHistory
  \/ TimesTick
  \/ LiveOk
  \/ LiveFail
  \/ \E times \in TimeLists : TimesOk(times)
  \/ TimesFail
  \/ PrevClick
  \/ NextClick
  \/ \E v \in 0..(NumTimes - 1) : SliderChange(v)
  \/ PlayToggle
  \/ PlayTick
  \/ \E r \in inflight : HistResponse(r)
  \/ \E r \in inflight : HistApply(r)
  \/ \E r \in inflight : HistReject(r)

\* the playback timeout, once armed, fires after playSpeedMs (or twice that
\* on the last frame) unless the effect is cleaned up first
SpecPlay == Init /\ [][NextHistory]_vars /\ WF_vars(PlayTick)

InitR ==
  InitRedraw /\ IdleFetch /\ IdleContour /\ IdleThin /\ IdleLevels /\ IdleField
  /\ IdleBarb /\ IdleBatch /\ IdleOverlay /\ IdleDeclutter /\ IdleScan
  /\ IdleLabel /\ IdleWind

SpecRedraw == InitR /\ [][NextRedraw]_vars

InitC ==
  InitContour /\ IdleFetch /\ IdleRedraw /\ IdleThin /\ IdleLevels /\ IdleField
  /\ IdleBarb /\ IdleBatch /\ IdleOverlay /\ IdleDeclutter /\ IdleScan
  /\ IdleLabel /\ IdleWind

SpecContour == InitC /\ [][NextContour]_vars

InitT ==
  InitThin /\ IdleFetch /\ IdleRedraw /\ IdleContour /\ IdleLevels /\ IdleField
  /\ IdleBarb /\ IdleBatch /\ IdleOverlay /\ IdleDeclutter /\ IdleScan
  /\ IdleLabel /\ IdleWind

SpecThin == InitT /\ [][NextThin]_vars

InitL ==
  InitLevels /\ IdleFetch /\ IdleRedraw /\ IdleContour /\ IdleThin /\ IdleField
  /\ IdleBarb /\ IdleBatch /\ IdleOverlay /\ IdleDeclutter /\ IdleScan
  /\ IdleLabel /\ IdleWind

SpecLevels == InitL /\ [][NextLevels]_vars

InitF ==
  InitField /\ IdleFetch /\ IdleRedraw /\ IdleContour /\ IdleThin /\ IdleLevels
  /\ IdleBarb /\ IdleBatch /\ IdleOverlay /\ IdleDeclutter /\ IdleScan
  /\ IdleLabel /\ IdleWind

SpecField == InitF /\ [][NextField]_vars

InitCe ==
  InitCell /\ IdleFetch /\ IdleRedraw /\ IdleThin /\ IdleLevels /\ IdleField
  /\ IdleBarb /\ IdleBatch /\ IdleOverlay /\ IdleDeclutter /\ IdleScan
  /\ IdleLabel /\ IdleWind

SpecCell == InitCe /\ [][NextContour]_vars

InitB ==
  InitBarb /\ IdleFetch /\ IdleRedraw /\ IdleContour /\ IdleThin /\ IdleLevels
  /\ IdleField /\ IdleBatch /\ IdleOverlay /\ IdleDeclutter /\ IdleScan
  /\ IdleLabel /\ IdleWind

SpecBarb == InitB /\ [][NextBarb]_vars

InitJ ==
  InitBatch /\ IdleFetch /\ IdleRedraw /\ IdleContour /\ IdleThin /\ IdleLevels
  /\ IdleField /\ IdleBarb /\ IdleOverlay /\ IdleDeclutter /\ IdleScan
  /\ IdleLabel /\ IdleWind

SpecBatch == InitJ /\ [][NextBatch]_vars

InitO ==
  InitOverlay /\ IdleFetch /\ IdleRedraw /\ IdleContour /\ IdleThin /\ IdleLevels
  /\ IdleField /\ IdleBarb /\ IdleBatch /\ IdleDeclutter /\ IdleScan
  /\ IdleLabel /\ IdleWind

SpecOverlay == InitO /\ [][NextOverlay]_vars

InitZ ==
  InitDeclutter /\ IdleFetch /\ IdleRedraw /\ IdleContour /\ IdleThin
  /\ IdleLevels /\ IdleField /\ IdleBarb /\ IdleBatch /\ IdleOverlay
  /\ IdleScan /\ IdleLabel /\ IdleWind

SpecDeclutter == InitZ /\ [][NextDeclutter]_vars

InitN ==
  InitScan /\ IdleFetch /\ IdleRedraw /\ IdleContour /\ IdleThin /\ IdleLevels
  /\ IdleField /\ IdleBarb /\ IdleBatch /\ IdleOverlay /\ IdleDeclutter
  /\ IdleLabel /\ IdleWind

SpecScan == InitN /\ [][NextScan]_vars

InitW ==
  InitWeights /\ IdleFetch /\ IdleRedraw /\ IdleContour /\ IdleThin /\ IdleLevels
  /\ IdleBarb /\ IdleBatch /\ IdleOverlay /\ IdleDeclutter /\ IdleScan
  /\ IdleLabel /\ IdleWind

SpecWeights == InitW /\ [][NextField]_vars

InitLb ==
  InitLabel /\ IdleFetch /\ IdleRedraw /\ IdleContour /\ IdleThin /\ IdleLevels
  /\ IdleField /\ IdleBarb /\ IdleBatch /\ IdleOverlay /\ IdleDeclutter
  /\ IdleScan /\ IdleWind

SpecLabel == InitLb /\ [][NextLabel]_vars

InitWd ==
  InitWind /\ IdleFetch /\ IdleRedraw /\ IdleContour /\ IdleThin /\ IdleLevels
  /\ IdleField /\ IdleBarb /\ IdleBatch /\ IdleOverlay /\ IdleDeclutter
  /\ IdleScan /\ IdleLabel

SpecWind == InitWd /\ [][NextWind]_vars

InitSt ==
  InitStore /\ IdleFetch /\ IdleRedraw /\ IdleContour /\ IdleThin /\ IdleLevels
  /\ IdleBarb /\ IdleBatch /\ IdleOverlay /\ IdleDeclutter /\ IdleScan
  /\ IdleLabel /\ IdleWind

SpecStore == InitSt /\ [][NextStore]_vars

=============================================================================
